---- MODULE Spec2Model ----
(***************************************************************************)
(* Model of the flowcraft workflow runtime: the execution engine           *)
(* (internal/engine/engine.go), the Redis task queue                       *)
(* (internal/queue/queue.go), the execution handler that submits runs and  *)
(* the worker process (cmd/worker main) that consumes them.                *)
(***************************************************************************)
EXTENDS Integers, Sequences, FiniteSets, TLC

(***************************************************************************)
(* Bounds of the model.                                                    *)
(***************************************************************************)
NumNodes == 3
MaxConns == 3
MaxRuns == 2
MaxStepRuns == 16
NumWorkers == 2
MaxSignals == 1
MaxTypeLen == 2
MaxTimeout == 12
MaxClock == 8
MaxExprs == 2
MaxItems == 2
MaxForeign == 1
MaxEdits == 1

VARIABLES
    nodes,           \* workflow.Nodes: node ids in declaration order
    connections,     \* the connections table, in enumeration order
    executions,      \* the workflow_executions table (Runs), index = ID
    nodeExecutions,  \* the node_executions table (step-runs), index = ID
    calls,           \* the ExecuteWorkflow invocations (engine goroutines)
    queue,           \* the Redis list behind the queue name
    pushed,          \* number of envelopes pushed so far (names the list entries)
    workers,         \* the worker goroutines of cmd/worker
    mainPc,          \* position of the worker process's main goroutine
    stopCh,          \* number of signals buffered in stopCh (capacity 1)
    signals,         \* number of shutdown signals the process has received
    timedOut,        \* calls whose worker logged "execution timed out"
    delivered,       \* per worker, the list entries DequeueTask returned to it
    trial            \* a caller of the queue client or of an executor: its
                     \* arguments, position and results

workerVars == <<queue, pushed, workers, mainPc, stopCh, signals, timedOut, delivered>>
vars == <<nodes, connections, executions, nodeExecutions, calls, workerVars, trial>>

(***************************************************************************)
(* Helpers on sequences.                                                   *)
(***************************************************************************)
SeqsUpTo(S, k) == UNION {[1..m -> S] : m \in 0..k}

Range(s) == {s[i] : i \in DOMAIN s}

(***************************************************************************)
(* Data model (internal/models).                                           *)
(***************************************************************************)
Handles == {"input"}

\* models.Connection rows over the node ids 1..n
ConnsOver(n) ==
    [SourceNodeID : 1..n, TargetNodeID : 1..n, TargetHandle : Handles]

\* connections whose target handle is the default one or another handle of
\* the target node
FanInHandles == {"input", "body"}

FanInConnsOver(n) ==
    [SourceNodeID : 1..n, TargetNodeID : 1..n, TargetHandle : FanInHandles]

\* models.WorkflowExecution as the execution handler creates it
NewExecution(input) ==
    [Status |-> "pending", InputData |-> input, OutputData |-> <<>>,
     ErrorMessage |-> "", CompletedAt |-> FALSE]

\* the input documents a Run is submitted with: valid JSON objects
RunInputs == {[valid |-> TRUE, value |-> ("data" :> 7)]}

\* error values; NoErr is Go's nil error
NoErr == "<nil>"
ErrNoStartNodes == "workflow has no start nodes"
ErrInputParse == "failed to parse input data"
ErrRecordNotFound == "record not found"
ErrUnknownExecutor == "unknown executor class"
ErrConfigJSON == "invalid character in node config"
ExecErrors == {"url is required in config", "request failed"}

\* the value an executor produces for a node (opaque to the engine)
Result(nodeID) == nodeID

\* encoding/json: JSON text is modelled as a tagged value; marshalling wraps a
\* value, unmarshalling accepts only wrapped values; <<>> is the empty text
MarshalJSON(v) == <<"json", v>>

UnmarshalJSON(bytes) ==
    IF Len(bytes) = 2 /\ bytes[1] = "json"
    THEN [ok |-> TRUE, value |-> bytes[2]]
    ELSE [ok |-> FALSE, value |-> <<>>]

(***************************************************************************)
(* Queries of the engine's data-access layer.                              *)
(***************************************************************************)
\* database.DB.Where("target_node_id = ?", id).Find(&connections)
ConnsByTarget(conns, id) == SelectSeq(conns, LAMBDA c : c.TargetNodeID = id)

\* the query returning the outgoing connections last first
ConnsBySource_Reversed(conns, id) ==
    LET found == SelectSeq(conns, LAMBDA c : c.SourceNodeID = id)
    IN [i \in DOMAIN found |-> found[Len(found) + 1 - i]]

\* database.DB.Where("source_node_id = ?", id).Find(&connections)
ConnsBySource(conns, id) == SelectSeq(conns, LAMBDA c : c.SourceNodeID = id)

\* a completed step-run of node nodeID in Run executionID exists
HasCompleted(executionID, nodeID) ==
    \E k \in DOMAIN nodeExecutions :
        /\ nodeExecutions[k].WorkflowExecutionID = executionID
        /\ nodeExecutions[k].NodeID = nodeID
        /\ nodeExecutions[k].Status = "completed"

\* allInputsReady that accepts a completed step-run of any Run
allInputsReady_AnyRun(nodeID, executionID) ==
    \A i \in DOMAIN connections :
        connections[i].TargetNodeID = nodeID
            => \E id \in DOMAIN executions :
                   HasCompleted(id, connections[i].SourceNodeID)

\* allInputsReady that is satisfied by one completed source
allInputsReady_AnySource(nodeID, executionID) ==
    \E i \in DOMAIN connections :
        /\ connections[i].TargetNodeID = nodeID
        /\ HasCompleted(executionID, connections[i].SourceNodeID)

\* Engine.allInputsReady
allInputsReady(nodeID, executionID) ==
    \A i \in DOMAIN connections :
        connections[i].TargetNodeID = nodeID
            => HasCompleted(executionID, connections[i].SourceNodeID)

\* start-node scan without the incoming-connection test: every node starts
startNodesOf_AllNodes(workflow) == workflow.Nodes

\* start-node scan that tests the source end of the connections
startNodesOf_BySource(workflow) ==
    SelectSeq(workflow.Nodes,
              LAMBDA n : ~ \E i \in DOMAIN workflow.Connections :
                              workflow.Connections[i].SourceNodeID = n)

\* the start-node scan of Engine.executeWorkflowInternal
startNodesOf(workflow) ==
    SelectSeq(workflow.Nodes,
              LAMBDA n : ~ \E i \in DOMAIN workflow.Connections :
                              workflow.Connections[i].TargetNodeID = n)

\* the fan-in loop of Engine.prepareNodeInput
RECURSIVE collectInputs(_, _, _)
collectInputs(conns, Results, inputs) ==
    IF conns = <<>> THEN inputs
    ELSE LET conn == Head(conns)
             h == conn.TargetHandle
             prev == IF h \in DOMAIN inputs THEN inputs[h] ELSE <<>>
         IN IF conn.SourceNodeID \in DOMAIN Results
            THEN collectInputs(Tail(conns), Results,
                     (h :> Append(prev, Results[conn.SourceNodeID])) @@ inputs)
            ELSE collectInputs(Tail(conns), Results, inputs)

\* prepareNodeInput in which a handle keeps only the output of the last
\* connection processed for it
prepareNodeInput_Overwrite(nodeID, context) ==
    LET conns == ConnsByTarget(connections, nodeID)
        known == SelectSeq(conns, LAMBDA c : c.SourceNodeID \in DOMAIN context.Results)
        on(h) == SelectSeq(known, LAMBDA c : c.TargetHandle = h)
    IN IF Len(conns) = 0 THEN context.Input
       ELSE [h \in {known[i].TargetHandle : i \in DOMAIN known} |->
                <<context.Results[on(h)[Len(on(h))].SourceNodeID]>>]

\* prepareNodeInput that hands a node without incoming connections the Run's
\* input as a list under the handle "input"
prepareNodeInput_RootUnderHandle(nodeID, context) ==
    LET conns == ConnsByTarget(connections, nodeID)
    IN IF Len(conns) = 0 THEN ("input" :> <<context.Input>>)
       ELSE collectInputs(conns, context.Results, <<>>)

\* Engine.prepareNodeInput
prepareNodeInput(nodeID, context) ==
    LET conns == ConnsByTarget(connections, nodeID)
    IN IF Len(conns) = 0 THEN context.Input
       ELSE collectInputs(conns, context.Results, <<>>)

(***************************************************************************)
(* Engine goroutines.  A call is one invocation of Engine.ExecuteWorkflow; *)
(* its stack holds one frame per active Engine.executeNode.                *)
(***************************************************************************)
\* the worker process is running: when main returns, every goroutine ends
Alive == mainPc # "exit"

\* found is the status First read from the Run row, "" before the load
NewCall(executionID) ==
    [executionID |-> executionID, pc |-> "load", found |-> "",
     execution |-> NewExecution([valid |-> TRUE, value |-> <<>>]),
     workflow |-> [Nodes |-> <<>>, Connections |-> <<>>],
     startNodes |-> <<>>, stack |-> <<>>,
     context |-> [Input |-> <<>>, Results |-> <<>>],
     err |-> NoErr]

NewFrame(nodeID) == [nodeID |-> nodeID, pc |-> "create", ne |-> 0, conns |-> <<>>]

Top(stack) == stack[Len(stack)]
Pop(stack) == SubSeq(stack, 1, Len(stack) - 1)
SetTop(stack, frame) == [stack EXCEPT ![Len(stack)] = frame]

\* error propagation in which the caller drops the error and goes on
returnErr_Swallowed(call, err) ==
    [call EXCEPT !.stack = SubSeq(call.stack, 1, Len(call.stack) - 1)]

\* "return err" in executeNode and in the start-node loop: every caller up to
\* executeWorkflowInternal returns the error at once (lines 180-182, 86-88)
returnErr(call, err) ==
    [call EXCEPT !.pc = "complete", !.stack = <<>>, !.err = err]

\* ExecuteWorkflow that loads the Run but does not record the running status
ExecuteWorkflow_NotMarkedRunning(c) ==
    /\ Alive
    /\ calls[c].pc = "load"
    /\ LET id == calls[c].executionID
       IN IF id \notin DOMAIN executions
          THEN calls' = [calls EXCEPT ![c].pc = "returned",
                                      ![c].err = ErrRecordNotFound]
          ELSE calls' = [calls EXCEPT
                   ![c].pc = "internal",
                   ![c].found = executions[id].Status,
                   ![c].execution = executions[id],
                   ![c].workflow = [Nodes |-> nodes,
                                    Connections |-> connections]]
    /\ UNCHANGED <<nodes, connections, executions, nodeExecutions, workerVars, trial>>

\* Engine.ExecuteWorkflow, lines 22-32: load the Run with its workflow and mark it running
ExecuteWorkflow(c) ==
    /\ Alive
    /\ calls[c].pc = "load"
    /\ LET id == calls[c].executionID
       IN IF id \notin DOMAIN executions
          THEN /\ calls' = [calls EXCEPT ![c].pc = "returned",
                                         ![c].err = ErrRecordNotFound]
               /\ UNCHANGED executions
          ELSE LET execution == [executions[id] EXCEPT !.Status = "running"]
               IN /\ executions' = [executions EXCEPT ![id] = execution]
                  /\ calls' = [calls EXCEPT
                         ![c].pc = "internal",
                         ![c].found = executions[id].Status,
                         ![c].execution = execution,
                         ![c].workflow = [Nodes |-> nodes,
                                          Connections |-> connections]]
    /\ UNCHANGED <<nodes, connections, nodeExecutions, workerVars, trial>>

\* executeWorkflowInternal that goes on with an empty input when the input
\* document does not parse
executeWorkflowInternal_ParseErrorIgnored(c) ==
    /\ Alive
    /\ calls[c].pc = "internal"
    /\ LET call == calls[c]
           sn == startNodesOf(call.workflow)
       IN IF Len(sn) = 0
          THEN calls' = [calls EXCEPT ![c].pc = "complete",
                                      ![c].err = ErrNoStartNodes]
          ELSE calls' = [calls EXCEPT
                   ![c].pc = "run",
                   ![c].startNodes = sn,
                   ![c].context = [Input |-> call.execution.InputData.value,
                                   Results |-> <<>>]]
    /\ UNCHANGED <<nodes, connections, executions, nodeExecutions, workerVars, trial>>

\* Engine.executeWorkflowInternal, lines 52-83: start nodes and input parsing
executeWorkflowInternal(c) ==
    /\ Alive
    /\ calls[c].pc = "internal"
    /\ LET call == calls[c]
           sn == startNodesOf(call.workflow)
       IN IF Len(sn) = 0
          THEN calls' = [calls EXCEPT ![c].pc = "complete",
                                      ![c].err = ErrNoStartNodes]
          ELSE IF ~ call.execution.InputData.valid
          THEN calls' = [calls EXCEPT ![c].pc = "complete",
                                      ![c].err = ErrInputParse]
          ELSE calls' = [calls EXCEPT
                   ![c].pc = "run",
                   ![c].startNodes = sn,
                   ![c].context = [Input |-> call.execution.InputData.value,
                                   Results |-> <<>>]]
    /\ UNCHANGED <<nodes, connections, executions, nodeExecutions, workerVars, trial>>

\* Engine.executeWorkflowInternal, lines 85-98: the loop over the start nodes
executeStartNodes(c) ==
    /\ Alive
    /\ calls[c].pc = "run"
    /\ calls[c].stack = <<>>
    /\ LET call == calls[c]
       IN IF call.startNodes # <<>>
          THEN calls' = [calls EXCEPT
                   ![c].stack = <<NewFrame(Head(call.startNodes))>>,
                   ![c].startNodes = Tail(call.startNodes)]
          ELSE calls' = [calls EXCEPT
                   ![c].pc = "complete",
                   ![c].execution.OutputData =
                       MarshalJSON(call.context.Results)]
    /\ UNCHANGED <<nodes, connections, executions, nodeExecutions, workerVars, trial>>

\* executeNode that creates the step-run with status pending
executeNodeCreate_Pending(c) ==
    /\ Alive
    /\ calls[c].pc = "run"
    /\ calls[c].stack # <<>>
    /\ Top(calls[c].stack).pc = "create"
    /\ Len(nodeExecutions) < MaxStepRuns
    /\ LET call == calls[c]
           frame == Top(call.stack)
       IN \E typeFound \in BOOLEAN :
            IF frame.nodeID \notin Range(nodes) \/ ~ typeFound
            THEN /\ calls' = [calls EXCEPT ![c] = returnErr(call, ErrRecordNotFound)]
                 /\ UNCHANGED nodeExecutions
            ELSE /\ nodeExecutions' = Append(nodeExecutions,
                        [WorkflowExecutionID |-> call.executionID,
                         NodeID |-> frame.nodeID,
                         Status |-> "pending",
                         InputData |-> <<>>, OutputData |-> <<>>,
                         ErrorMessage |-> <<>>, CompletedAt |-> FALSE])
                 /\ calls' = [calls EXCEPT ![c].stack =
                        SetTop(call.stack,
                               [frame EXCEPT !.pc = "execute",
                                             !.ne = Len(nodeExecutions) + 1])]
    /\ UNCHANGED <<nodes, connections, executions, workerVars, trial>>

\* Engine.executeNode, lines 103-123: look up node and node type, create the step-run
executeNodeCreate(c) ==
    /\ Alive
    /\ calls[c].pc = "run"
    /\ calls[c].stack # <<>>
    /\ Top(calls[c].stack).pc = "create"
    /\ Len(nodeExecutions) < MaxStepRuns
    /\ LET call == calls[c]
           frame == Top(call.stack)
       IN \E typeFound \in BOOLEAN :
            IF frame.nodeID \notin Range(nodes) \/ ~ typeFound
            THEN /\ calls' = [calls EXCEPT ![c] = returnErr(call, ErrRecordNotFound)]
                 /\ UNCHANGED nodeExecutions
            ELSE /\ nodeExecutions' = Append(nodeExecutions,
                        [WorkflowExecutionID |-> call.executionID,
                         NodeID |-> frame.nodeID,
                         Status |-> "running",
                         InputData |-> <<>>, OutputData |-> <<>>,
                         ErrorMessage |-> <<>>, CompletedAt |-> FALSE])
                 /\ calls' = [calls EXCEPT ![c].stack =
                        SetTop(call.stack,
                               [frame EXCEPT !.pc = "execute",
                                             !.ne = Len(nodeExecutions) + 1])]
    /\ UNCHANGED <<nodes, connections, executions, workerVars, trial>>

\* executeNode that returns the configuration error without saving the failed status
executeNodeRun_ConfigErrorUnsaved(c) ==
    /\ Alive
    /\ calls[c].pc = "run"
    /\ calls[c].stack # <<>>
    /\ Top(calls[c].stack).pc = "execute"
    /\ LET call == calls[c]
           frame == Top(call.stack)
           inputData == prepareNodeInput(frame.nodeID, call.context)
           row == [nodeExecutions[frame.ne] EXCEPT
                      !.InputData = MarshalJSON(inputData)]
           abort(err, failedRow) ==
               /\ nodeExecutions' = [nodeExecutions EXCEPT ![frame.ne] = failedRow]
               /\ calls' = [calls EXCEPT ![c] = returnErr(call, err)]
       IN \/ abort(ErrUnknownExecutor,
                   [row EXCEPT !.Status = "failed",
                               !.ErrorMessage = <<"failed to load executor: ",
                                                  ErrUnknownExecutor>>])
          \/ abort(ErrConfigJSON, row)
          \/ \E err \in ExecErrors :
                abort(err,
                      [row EXCEPT !.Status = "failed",
                                  !.ErrorMessage = <<"execution failed: ", err>>,
                                  !.CompletedAt = TRUE])
          \/ LET result == Result(frame.nodeID)
             IN /\ nodeExecutions' = [nodeExecutions EXCEPT ![frame.ne] =
                       [row EXCEPT !.OutputData = MarshalJSON(result),
                                   !.Status = "completed",
                                   !.CompletedAt = TRUE]]
                /\ calls' = [calls EXCEPT
                       ![c].context.Results =
                           (frame.nodeID :> result) @@ call.context.Results,
                       ![c].stack = SetTop(call.stack,
                           [frame EXCEPT
                               !.pc = "successors",
                               !.conns = ConnsBySource(connections, frame.nodeID)])]
    /\ UNCHANGED <<nodes, connections, executions, workerVars, trial>>

\* Engine.executeNode, lines 125-173: input, executor, configuration, execution, result
executeNodeRun(c) ==
    /\ Alive
    /\ calls[c].pc = "run"
    /\ calls[c].stack # <<>>
    /\ Top(calls[c].stack).pc = "execute"
    /\ LET call == calls[c]
           frame == Top(call.stack)
           inputData == prepareNodeInput(frame.nodeID, call.context)
           row == [nodeExecutions[frame.ne] EXCEPT
                      !.InputData = MarshalJSON(inputData)]
           abort(err, failedRow) ==
               /\ nodeExecutions' = [nodeExecutions EXCEPT ![frame.ne] = failedRow]
               /\ calls' = [calls EXCEPT ![c] = returnErr(call, err)]
       IN \/ abort(ErrUnknownExecutor,
                   [row EXCEPT !.Status = "failed",
                               !.ErrorMessage = <<"failed to load executor: ",
                                                  ErrUnknownExecutor>>])
          \/ abort(ErrConfigJSON,
                   [row EXCEPT !.Status = "failed",
                               !.ErrorMessage = <<"failed to parse node config: ",
                                                  ErrConfigJSON>>])
          \/ \E err \in ExecErrors :
                abort(err,
                      [row EXCEPT !.Status = "failed",
                                  !.ErrorMessage = <<"execution failed: ", err>>,
                                  !.CompletedAt = TRUE])
          \/ LET result == Result(frame.nodeID)
             IN /\ nodeExecutions' = [nodeExecutions EXCEPT ![frame.ne] =
                       [row EXCEPT !.OutputData = MarshalJSON(result),
                                   !.Status = "completed",
                                   !.CompletedAt = TRUE]]
                /\ calls' = [calls EXCEPT
                       ![c].context.Results =
                           (frame.nodeID :> result) @@ call.context.Results,
                       ![c].stack = SetTop(call.stack,
                           [frame EXCEPT
                               !.pc = "successors",
                               !.conns = ConnsBySource(connections, frame.nodeID)])]
    /\ UNCHANGED <<nodes, connections, executions, workerVars, trial>>

\* Engine.executeNode, lines 175-186: one iteration of the loop over the outgoing connections
executeNodeSuccessors(c) ==
    /\ Alive
    /\ calls[c].pc = "run"
    /\ calls[c].stack # <<>>
    /\ Top(calls[c].stack).pc = "successors"
    /\ LET call == calls[c]
           frame == Top(call.stack)
       IN IF frame.conns = <<>>
          THEN calls' = [calls EXCEPT ![c].stack = Pop(call.stack)]
          ELSE LET targetNodeID == Head(frame.conns).TargetNodeID
                   rest == SetTop(call.stack,
                                  [frame EXCEPT !.conns = Tail(frame.conns)])
               IN IF allInputsReady(targetNodeID, call.executionID)
                  THEN calls' = [calls EXCEPT ![c].stack =
                                    Append(rest, NewFrame(targetNodeID))]
                  ELSE calls' = [calls EXCEPT ![c].stack = rest]
    /\ UNCHANGED <<nodes, connections, executions, nodeExecutions, workerVars, trial>>

\* completion that marks the Run failed without copying the error text
ExecuteWorkflowComplete_NoErrorText(c) ==
    /\ Alive
    /\ calls[c].pc = "complete"
    /\ LET call == calls[c]
           execution ==
               IF call.err # NoErr
               THEN [call.execution EXCEPT !.CompletedAt = TRUE,
                                           !.Status = "failed"]
               ELSE [call.execution EXCEPT !.CompletedAt = TRUE,
                                           !.Status = "completed"]
       IN /\ executions' = [executions EXCEPT ![call.executionID] = execution]
          /\ calls' = [calls EXCEPT ![c].pc = "returned",
                                    ![c].execution = execution]
    /\ UNCHANGED <<nodes, connections, nodeExecutions, workerVars, trial>>

\* completion that also removes the workflow's connections when the Run failed
ExecuteWorkflowComplete_PrunesGraph(c) ==
    /\ Alive
    /\ calls[c].pc = "complete"
    /\ LET call == calls[c]
           execution ==
               IF call.err # NoErr
               THEN [call.execution EXCEPT !.CompletedAt = TRUE,
                                           !.Status = "failed",
                                           !.ErrorMessage = call.err]
               ELSE [call.execution EXCEPT !.CompletedAt = TRUE,
                                           !.Status = "completed"]
       IN /\ executions' = [executions EXCEPT ![call.executionID] = execution]
          /\ calls' = [calls EXCEPT ![c].pc = "returned",
                                    ![c].execution = execution]
    /\ connections' = IF calls[c].err # NoErr THEN <<>> ELSE connections
    /\ UNCHANGED <<nodes, nodeExecutions, workerVars, trial>>

\* Engine.ExecuteWorkflow, lines 37-48: record the outcome on the Run
ExecuteWorkflowComplete(c) ==
    /\ Alive
    /\ calls[c].pc = "complete"
    /\ LET call == calls[c]
           execution ==
               IF call.err # NoErr
               THEN [call.execution EXCEPT !.CompletedAt = TRUE,
                                           !.Status = "failed",
                                           !.ErrorMessage = call.err]
               ELSE [call.execution EXCEPT !.CompletedAt = TRUE,
                                           !.Status = "completed"]
       IN /\ executions' = [executions EXCEPT ![call.executionID] = execution]
          /\ calls' = [calls EXCEPT ![c].pc = "returned",
                                    ![c].execution = execution]
    /\ UNCHANGED <<nodes, connections, nodeExecutions, workerVars, trial>>

\* one step of an engine goroutine
EngineStep(c) ==
    \/ ExecuteWorkflow(c)
    \/ executeWorkflowInternal(c)
    \/ executeStartNodes(c)
    \/ executeNodeCreate(c)
    \/ executeNodeRun(c)
    \/ executeNodeSuccessors(c)
    \/ ExecuteWorkflowComplete(c)

(***************************************************************************)
(* Engine specification: Runs of one workflow, every graph over at most    *)
(* NumNodes nodes and MaxConns connections.  The Runs are processed by a   *)
(* single worker loop (the default of the workers flag) whose execution    *)
(* timeout does not elapse: it takes the run ids in the order they were    *)
(* enqueued and starts a call when the previous one has signalled          *)
(* executionDone.  Concurrent calls are the subject of SpecWorker.         *)
(***************************************************************************)
\* cmd/worker main, lines 94-106: the worker runs ExecuteWorkflow for the next run id
GoExecuteWorkflow(id) ==
    /\ id = Len(calls) + 1
    /\ \A c \in DOMAIN calls : calls[c].pc = "returned"
    /\ calls' = Append(calls, NewCall(id))
    /\ UNCHANGED <<nodes, connections, executions, nodeExecutions, workerVars, trial>>

Init ==
    /\ \E n \in 0..NumNodes :
         /\ nodes = [i \in 1..n |-> i]
         /\ connections \in SeqsUpTo(ConnsOver(n), MaxConns)
    /\ executions \in [1..MaxRuns -> {NewExecution(input) : input \in RunInputs}]
    /\ nodeExecutions = <<>>
    /\ calls = <<>>
    /\ queue = <<>>
    /\ pushed = 0
    /\ workers = <<>>
    /\ mainPc = "recv"
    /\ stopCh = 0
    /\ signals = 0
    /\ timedOut = {}
    /\ delivered = <<>>
    /\ trial = <<>>

Next ==
    \/ \E id \in DOMAIN executions : GoExecuteWorkflow(id)
    \/ \E c \in DOMAIN calls : ExecuteWorkflow(c)
    \/ \E c \in DOMAIN calls : executeWorkflowInternal(c)
    \/ \E c \in DOMAIN calls : executeStartNodes(c)
    \/ \E c \in DOMAIN calls : executeNodeCreate(c)
    \/ \E c \in DOMAIN calls : executeNodeRun(c)
    \/ \E c \in DOMAIN calls : executeNodeSuccessors(c)
    \/ \E c \in DOMAIN calls : ExecuteWorkflowComplete(c)

Spec == Init /\ [][Next]_vars

\* the Go scheduler keeps running the goroutine that is able to take a step
FairSpec == Spec /\ WF_vars(Next)

(***************************************************************************)
(* Input specification: one Run of every graph, whose input document is    *)
(* one of two JSON objects or a text that json.Unmarshal rejects for a map *)
(* (a row of the Run table written by another client of the database than  *)
(* the execution handler, which always stores an object or null).          *)
(***************************************************************************)
StoredInputs ==
    RunInputs \cup {[valid |-> TRUE, value |-> ("data" :> 8)],
                    [valid |-> FALSE, value |-> <<>>]}

InitInput ==
    /\ \E n \in 0..NumNodes :
         /\ nodes = [i \in 1..n |-> i]
         /\ connections \in SeqsUpTo(ConnsOver(n), MaxConns)
    /\ executions \in [1..1 -> {NewExecution(input) : input \in StoredInputs}]
    /\ nodeExecutions = <<>>
    /\ calls = <<>>
    /\ queue = <<>>
    /\ pushed = 0
    /\ workers = <<>>
    /\ mainPc = "recv"
    /\ stopCh = 0
    /\ signals = 0
    /\ timedOut = {}
    /\ delivered = <<>>
    /\ trial = <<>>

SpecInput == InitInput /\ [][Next]_vars

(***************************************************************************)
(* Editing specification: one Run of every graph while the REST handlers   *)
(* of nodes and connections change the workflow, up to MaxEdits times.     *)
(* trial counts the changes and holds the last node id the database gave.  *)
(***************************************************************************)
InitEdit ==
    /\ \E n \in 0..NumNodes :
         /\ nodes = [i \in 1..n |-> i]
         /\ connections \in SeqsUpTo(ConnsOver(n), MaxConns)
         /\ trial = [edits |-> 0, lastNodeID |-> n]
    /\ executions \in [1..1 -> {NewExecution(input) : input \in RunInputs}]
    /\ nodeExecutions = <<>>
    /\ calls = <<>>
    /\ queue = <<>>
    /\ pushed = 0
    /\ workers = <<>>
    /\ mainPc = "recv"
    /\ stopCh = 0
    /\ signals = 0
    /\ timedOut = {}
    /\ delivered = <<>>

\* NodeHandler.Create: the database gives the node the next id
NodeCreate ==
    /\ trial.edits < MaxEdits
    /\ nodes' = Append(nodes, trial.lastNodeID + 1)
    /\ trial' = [edits |-> trial.edits + 1, lastNodeID |-> trial.lastNodeID + 1]
    /\ UNCHANGED <<connections, executions, nodeExecutions, calls, workerVars>>

\* NodeHandler.Delete: the node's row is deleted, its connections stay
NodeDelete ==
    /\ trial.edits < MaxEdits
    /\ \E n \in Range(nodes) :
         nodes' = SelectSeq(nodes, LAMBDA m : m # n)
    /\ trial' = [trial EXCEPT !.edits = @ + 1]
    /\ UNCHANGED <<connections, executions, nodeExecutions, calls, workerVars>>

\* ConnectionHandler.Create: the bound connection is stored as it is
ConnectionCreate ==
    /\ trial.edits < MaxEdits
    /\ \E conn \in [SourceNodeID : Range(nodes), TargetNodeID : Range(nodes),
                     TargetHandle : Handles] :
         connections' = Append(connections, conn)
    /\ trial' = [trial EXCEPT !.edits = @ + 1]
    /\ UNCHANGED <<nodes, executions, nodeExecutions, calls, workerVars>>

\* ConnectionHandler.Delete
ConnectionDelete ==
    /\ trial.edits < MaxEdits
    /\ \E i \in DOMAIN connections :
         connections' = [j \in 1..(Len(connections) - 1) |->
                            IF j < i THEN connections[j] ELSE connections[j + 1]]
    /\ trial' = [trial EXCEPT !.edits = @ + 1]
    /\ UNCHANGED <<nodes, executions, nodeExecutions, calls, workerVars>>

NextEdit ==
    \/ NodeCreate
    \/ NodeDelete
    \/ ConnectionCreate
    \/ ConnectionDelete
    \/ \E id \in DOMAIN executions : GoExecuteWorkflow(id)
    \/ \E c \in DOMAIN calls : ExecuteWorkflow(c)
    \/ \E c \in DOMAIN calls : executeWorkflowInternal(c)
    \/ \E c \in DOMAIN calls : executeStartNodes(c)
    \/ \E c \in DOMAIN calls : executeNodeCreate(c)
    \/ \E c \in DOMAIN calls : executeNodeRun(c)
    \/ \E c \in DOMAIN calls : executeNodeSuccessors(c)
    \/ \E c \in DOMAIN calls : ExecuteWorkflowComplete(c)

SpecEdit == InitEdit /\ [][NextEdit]_vars

(***************************************************************************)
(* Fan-in specification: one Run of every graph whose connections arrive   *)
(* on either of two target handles.                                        *)
(***************************************************************************)
InitFanIn ==
    /\ \E n \in 0..NumNodes :
         /\ nodes = [i \in 1..n |-> i]
         /\ connections \in SeqsUpTo(FanInConnsOver(n), MaxConns)
    /\ executions \in [1..1 -> {NewExecution(input) : input \in RunInputs}]
    /\ nodeExecutions = <<>>
    /\ calls = <<>>
    /\ queue = <<>>
    /\ pushed = 0
    /\ workers = <<>>
    /\ mainPc = "recv"
    /\ stopCh = 0
    /\ signals = 0
    /\ timedOut = {}
    /\ delivered = <<>>
    /\ trial = <<>>

SpecFanIn == InitFanIn /\ [][Next]_vars

(***************************************************************************)
(* Task queue (internal/queue/queue.go).                                   *)
(***************************************************************************)
\* A Go string is a sequence of units: a unit is a piece of valid UTF-8 text,
\* the byte 0xFF (which no UTF-8 text contains) or the character U+FFFD.
InvalidByte == "0xFF"
ReplacementChar == "U+FFFD"

ValidUTF8(text) == \A i \in DOMAIN text : text[i] # InvalidByte

\* encoding/json writes a string coerced to valid UTF-8: every invalid byte
\* becomes U+FFFD
ToValidUTF8(text) ==
    [i \in DOMAIN text |->
        IF text[i] = InvalidByte THEN ReplacementChar ELSE text[i]]

\* a Go value encoding/json has no encoding for (a channel)
JSONUnsupported == [gotype |-> "chan"]

\* json.Marshal of a TaskMessage: the task type as a JSON string, the payload
\* (a json.RawMessage) embedded as it is
MarshalTask(task) ==
    <<"json", [task_type |-> ToValidUTF8(task.task_type),
               payload |-> task.payload]>>

\* the task type of the Run trigger
ExecuteWorkflowTask == <<"execute_workflow">>

\* EnqueueTask whose task carries the payload as a plain byte slice, which
\* encoding/json writes as a base64 string
EnqueueTask_Base64Payload(q, seq, taskType, payload, pushOK) ==
    IF payload = JSONUnsupported
    THEN [err |-> "failed to marshal payload", queue |-> q]
    ELSE LET task == [task_type |-> taskType, payload |-> <<"base64", payload>>]
             taskBytes == MarshalTask(task)
         IN IF pushOK
            THEN [err |-> NoErr,
                  queue |-> Append(q, [seq |-> seq, bytes |-> taskBytes])]
            ELSE [err |-> "failed to push task to queue", queue |-> q]

\* QueueClient.EnqueueTask: the error returned and the list after RPush of
\* the serialized task; pushOK tells whether Redis accepted the push
EnqueueTask(q, seq, taskType, payload, pushOK) ==
    IF payload = JSONUnsupported
    THEN [err |-> "failed to marshal payload", queue |-> q]
    ELSE LET payloadBytes == MarshalJSON(payload)
             task == [task_type |-> taskType, payload |-> payloadBytes]
             taskBytes == MarshalTask(task)
         IN IF pushOK
            THEN [err |-> NoErr,
                  queue |-> Append(q, [seq |-> seq, bytes |-> taskBytes])]
            ELSE [err |-> "failed to push task to queue", queue |-> q]

\* DequeueTask that reads the head of the list without removing it
DequeueTask_NoRemove(q) ==
    IF q = <<>>
    THEN [found |-> FALSE, err |-> NoErr, task |-> <<>>, entry |-> 0, queue |-> q]
    ELSE LET parsed == UnmarshalJSON(Head(q).bytes)
         IN [found |-> parsed.ok,
             err |-> IF parsed.ok THEN NoErr ELSE "failed to unmarshal task",
             task |-> parsed.value, entry |-> Head(q).seq, queue |-> q]

\* DequeueTask that pops from the end of the list to which EnqueueTask pushes
DequeueTask_FromTail(q) ==
    IF q = <<>>
    THEN [found |-> FALSE, err |-> NoErr, task |-> <<>>, entry |-> 0, queue |-> q]
    ELSE LET parsed == UnmarshalJSON(q[Len(q)].bytes)
         IN [found |-> parsed.ok,
             err |-> IF parsed.ok THEN NoErr ELSE "failed to unmarshal task",
             task |-> parsed.value, entry |-> q[Len(q)].seq,
             queue |-> SubSeq(q, 1, Len(q) - 1)]

\* QueueClient.DequeueTask without a Redis error: BLPop removes the head of
\* the list atomically, or finds the list empty until the timeout (redis.Nil)
DequeueTask(q) ==
    IF q = <<>>
    THEN [found |-> FALSE, err |-> NoErr, task |-> <<>>, entry |-> 0, queue |-> q]
    ELSE LET parsed == UnmarshalJSON(Head(q).bytes)
         IN [found |-> parsed.ok,
             err |-> IF parsed.ok THEN NoErr ELSE "failed to unmarshal task",
             task |-> parsed.value, entry |-> Head(q).seq, queue |-> Tail(q)]

(***************************************************************************)
(* Execution handler (handlers.ExecuteWorkflow): creates the Run and       *)
(* enqueues its trigger task.                                              *)
(***************************************************************************)
SubmitExecution ==
    /\ Len(executions) < MaxRuns
    /\ \E input \in RunInputs :
         executions' = Append(executions, NewExecution(input))
    /\ \E pushOK \in BOOLEAN :
         LET r == EnqueueTask(queue, pushed + 1, ExecuteWorkflowTask,
                              [execution_id |-> Len(executions) + 1], pushOK)
         IN /\ queue' = r.queue
            /\ pushed' = IF r.err = NoErr THEN pushed + 1 ELSE pushed
    /\ UNCHANGED <<nodes, connections, nodeExecutions, calls, workers, mainPc,
                   stopCh, signals, timedOut, delivered, trial>>

(***************************************************************************)
(* Worker process (cmd/worker main).                                       *)
(***************************************************************************)
\* main, lines 57-118: launch the next worker goroutine; after the last one
\* main blocks on <-stopCh
MainLaunch(w) ==
    /\ mainPc = "launch"
    /\ workers[w].pc = "new"
    /\ \A v \in 1..(w - 1) : workers[v].pc # "new"
    /\ workers' = [workers EXCEPT ![w].pc = "select"]
    /\ mainPc' = IF w = Len(workers) THEN "recv" ELSE "launch"
    /\ UNCHANGED <<nodes, connections, executions, nodeExecutions, calls, queue,
                   pushed, stopCh, signals, timedOut, delivered, trial>>

\* os/signal delivers SIGINT/SIGTERM to stopCh (line 52) with a non-blocking
\* send: a receiver parked on the channel (main at line 121) gets the value
\* directly, otherwise it is buffered, and it is dropped when the buffer is full
Signal ==
    /\ Alive
    /\ signals < MaxSignals
    /\ signals' = signals + 1
    /\ IF mainPc = "recv" /\ stopCh = 0
       THEN mainPc' = "grace" /\ UNCHANGED stopCh
       ELSE /\ stopCh' = 1
            /\ UNCHANGED mainPc
    /\ UNCHANGED <<nodes, connections, executions, nodeExecutions, calls, queue,
                   pushed, workers, timedOut, delivered, trial>>

\* main, line 121: <-stopCh finds a buffered signal
MainRecv ==
    /\ mainPc = "recv"
    /\ stopCh > 0
    /\ stopCh' = stopCh - 1
    /\ mainPc' = "grace"
    /\ UNCHANGED <<nodes, connections, executions, nodeExecutions, calls, queue,
                   pushed, workers, signals, timedOut, delivered, trial>>

\* main, lines 124-138: main returns when all workers have returned
\* (forceShutdown closed) or when the 10 second timer fires
MainShutdown ==
    /\ mainPc = "grace"
    /\ mainPc' = "exit"
    /\ UNCHANGED <<nodes, connections, executions, nodeExecutions, calls, queue,
                   pushed, workers, stopCh, signals, timedOut, delivered, trial>>

\* select without the default case: the loop waits on stopCh
WorkerSelect_NoDefault(w) ==
    /\ Alive
    /\ workers[w].pc = "select"
    /\ stopCh > 0
    /\ stopCh' = stopCh - 1
    /\ workers' = [workers EXCEPT ![w].pc = "stopped"]
    /\ UNCHANGED <<nodes, connections, executions, nodeExecutions, calls, queue,
                   pushed, mainPc, signals, timedOut, delivered, trial>>

\* worker loop, lines 66-70: select on stopCh with a default case
WorkerSelect(w) ==
    /\ Alive
    /\ workers[w].pc = "select"
    /\ IF stopCh > 0
       THEN /\ stopCh' = stopCh - 1
            /\ workers' = [workers EXCEPT ![w].pc = "stopped"]
       ELSE /\ workers' = [workers EXCEPT ![w].pc = "dequeue"]
            /\ UNCHANGED stopCh
    /\ UNCHANGED <<nodes, connections, executions, nodeExecutions, calls, queue,
                   pushed, mainPc, signals, timedOut, delivered, trial>>

\* json.Unmarshal(task.Payload, &payload) into WorkflowExecutionPayload: the
\* payload must be JSON and its execution_id, when present, a uint
DecodePayload(bytes) ==
    LET parsed == UnmarshalJSON(bytes)
        present == parsed.ok /\ "execution_id" \in DOMAIN parsed.value
    IN IF parsed.ok /\ (present => parsed.value.execution_id \in Nat)
       THEN [ok |-> TRUE,
             ExecutionID |-> IF present THEN parsed.value.execution_id ELSE 0]
       ELSE [ok |-> FALSE, ExecutionID |-> 0]

\* worker loop that returns when DequeueTask reports an error
WorkerDequeue_StopsOnError(w) ==
    /\ Alive
    /\ workers[w].pc = "dequeue"
    /\ \E redisErr \in BOOLEAN :
         IF redisErr
         THEN /\ workers' = [workers EXCEPT ![w].pc = "stopped"]
              /\ UNCHANGED <<queue, delivered, calls>>
         ELSE LET r == DequeueTask(queue)
                  payload == DecodePayload(r.task.payload)
              IN /\ queue' = r.queue
                 /\ delivered' = IF r.found
                                 THEN [delivered EXCEPT ![w] = Append(@, r.entry)]
                                 ELSE delivered
                 /\ IF r.found /\ r.task.task_type = ExecuteWorkflowTask /\ payload.ok
                    THEN /\ calls' = Append(calls, NewCall(payload.ExecutionID))
                         /\ workers' = [workers EXCEPT
                                ![w] = [pc |-> "wait", call |-> Len(calls) + 1]]
                    ELSE /\ workers' = [workers EXCEPT ![w].pc = "select"]
                         /\ UNCHANGED calls
    /\ UNCHANGED <<nodes, connections, executions, nodeExecutions, pushed, mainPc,
                   stopCh, signals, timedOut, trial>>

\* worker loop, lines 72-101: DequeueTask, then dispatch on the task type
WorkerDequeue(w) ==
    /\ Alive
    /\ workers[w].pc = "dequeue"
    /\ \E redisErr \in BOOLEAN :
         IF redisErr
         THEN /\ workers' = [workers EXCEPT ![w].pc = "select"]
              /\ UNCHANGED <<queue, delivered, calls>>
         ELSE LET r == DequeueTask(queue)
                  payload == DecodePayload(r.task.payload)
              IN /\ queue' = r.queue
                 /\ delivered' = IF r.found
                                 THEN [delivered EXCEPT ![w] = Append(@, r.entry)]
                                 ELSE delivered
                 /\ IF r.found /\ r.task.task_type = ExecuteWorkflowTask /\ payload.ok
                    THEN /\ calls' = Append(calls, NewCall(payload.ExecutionID))
                         /\ workers' = [workers EXCEPT
                                ![w] = [pc |-> "wait", call |-> Len(calls) + 1]]
                    ELSE /\ workers' = [workers EXCEPT ![w].pc = "select"]
                         /\ UNCHANGED calls
    /\ UNCHANGED <<nodes, connections, executions, nodeExecutions, pushed, mainPc,
                   stopCh, signals, timedOut, trial>>

\* worker loop, lines 104-106: executionDone is closed
WorkerExecutionDone(w) ==
    /\ Alive
    /\ workers[w].pc = "wait"
    /\ calls[workers[w].call].pc = "returned"
    /\ workers' = [workers EXCEPT ![w] = [pc |-> "select", call |-> 0]]
    /\ UNCHANGED <<nodes, connections, executions, nodeExecutions, calls, queue,
                   pushed, mainPc, stopCh, signals, timedOut, delivered, trial>>

\* timeout branch that also marks the Run failed and ends the call
WorkerTimeout_FailsRun(w) ==
    /\ Alive
    /\ workers[w].pc = "wait"
    /\ timedOut' = timedOut \cup {workers[w].call}
    /\ workers' = [workers EXCEPT ![w] = [pc |-> "select", call |-> 0]]
    /\ LET id == calls[workers[w].call].executionID
       IN executions' = [executions EXCEPT ![id].Status = "failed"]
    /\ UNCHANGED <<nodes, connections, nodeExecutions, calls, queue,
                   pushed, mainPc, stopCh, signals, delivered, trial>>

\* timeout branch that puts the task back on the queue for another attempt
WorkerTimeout_Requeue(w) ==
    /\ Alive
    /\ workers[w].pc = "wait"
    /\ timedOut' = timedOut \cup {workers[w].call}
    /\ workers' = [workers EXCEPT ![w] = [pc |-> "select", call |-> 0]]
    /\ queue' = EnqueueTask(queue, pushed + 1, ExecuteWorkflowTask,
                  [execution_id |-> calls[workers[w].call].executionID], TRUE).queue
    /\ pushed' = pushed + 1
    /\ UNCHANGED <<nodes, connections, executions, nodeExecutions, calls,
                   mainPc, stopCh, signals, delivered, trial>>

\* worker loop, lines 107-109: the execution timer fires
WorkerTimeout(w) ==
    /\ Alive
    /\ workers[w].pc = "wait"
    /\ timedOut' = timedOut \cup {workers[w].call}
    /\ workers' = [workers EXCEPT ![w] = [pc |-> "select", call |-> 0]]
    /\ UNCHANGED <<nodes, connections, executions, nodeExecutions, calls, queue,
                   pushed, mainPc, stopCh, signals, delivered, trial>>

(***************************************************************************)
(* Worker specification: the worker process with NumWorkers loops (the     *)
(* value of the flag -workers, which is the length of workers), the        *)
(* handler submitting up to MaxRuns Runs of a one-node workflow, and the   *)
(* engine goroutines the workers start.                                    *)
(***************************************************************************)
InitWorker ==
    /\ nodes = <<1>>
    /\ connections = <<>>
    /\ executions = <<>>
    /\ nodeExecutions = <<>>
    /\ calls = <<>>
    /\ queue = <<>>
    /\ pushed = 0
    /\ workers = [w \in 1..NumWorkers |-> [pc |-> "new", call |-> 0]]
    /\ mainPc = "launch"
    /\ stopCh = 0
    /\ signals = 0
    /\ timedOut = {}
    /\ delivered = [w \in 1..NumWorkers |-> <<>>]
    /\ trial = <<>>

NextWorker ==
    \/ SubmitExecution
    \/ \E w \in DOMAIN workers : MainLaunch(w)
    \/ Signal
    \/ MainRecv
    \/ MainShutdown
    \/ \E w \in DOMAIN workers : WorkerSelect(w)
    \/ \E w \in DOMAIN workers : WorkerDequeue(w)
    \/ \E w \in DOMAIN workers : WorkerExecutionDone(w)
    \/ \E w \in DOMAIN workers : WorkerTimeout(w)
    \/ \E c \in DOMAIN calls : ExecuteWorkflow(c)
    \/ \E c \in DOMAIN calls : executeWorkflowInternal(c)
    \/ \E c \in DOMAIN calls : executeStartNodes(c)
    \/ \E c \in DOMAIN calls : executeNodeCreate(c)
    \/ \E c \in DOMAIN calls : executeNodeRun(c)
    \/ \E c \in DOMAIN calls : executeNodeSuccessors(c)
    \/ \E c \in DOMAIN calls : ExecuteWorkflowComplete(c)

SpecWorker == InitWorker /\ [][NextWorker]_vars

\* the worker process with Runs of a workflow of two nodes in a chain
InitWorkerChain ==
    /\ nodes = <<1, 2>>
    /\ connections = <<[SourceNodeID |-> 1, TargetNodeID |-> 2,
                        TargetHandle |-> "input"]>>
    /\ executions = <<>>
    /\ nodeExecutions = <<>>
    /\ calls = <<>>
    /\ queue = <<>>
    /\ pushed = 0
    /\ workers = [w \in 1..NumWorkers |-> [pc |-> "new", call |-> 0]]
    /\ mainPc = "launch"
    /\ stopCh = 0
    /\ signals = 0
    /\ timedOut = {}
    /\ delivered = [w \in 1..NumWorkers |-> <<>>]
    /\ trial = <<>>

SpecWorkerChain == InitWorkerChain /\ [][NextWorker]_vars

\* the default of the flag -workers
DefaultWorkers == 1

\* the worker process started without the flag -workers, with Runs of the
\* one-node workflow
InitDefaultWorker ==
    /\ nodes = <<1>>
    /\ connections = <<>>
    /\ executions = <<>>
    /\ nodeExecutions = <<>>
    /\ calls = <<>>
    /\ queue = <<>>
    /\ pushed = 0
    /\ workers = [w \in 1..DefaultWorkers |-> [pc |-> "new", call |-> 0]]
    /\ mainPc = "launch"
    /\ stopCh = 0
    /\ signals = 0
    /\ timedOut = {}
    /\ delivered = [w \in 1..DefaultWorkers |-> <<>>]
    /\ trial = <<>>

SpecDefaultWorker == InitDefaultWorker /\ [][NextWorker]_vars

(***************************************************************************)
(* Redelivery specification: the worker process started without the flag   *)
(* -workers while the trigger task of a Run is pushed onto the task list a *)
(* second time, up to MaxForeign times in all.  trial holds the numbers of *)
(* the repeated entries.                                                   *)
(***************************************************************************)
InitRedelivery ==
    /\ nodes = <<1>>
    /\ connections = <<>>
    /\ executions = <<>>
    /\ nodeExecutions = <<>>
    /\ calls = <<>>
    /\ queue = <<>>
    /\ pushed = 0
    /\ workers = [w \in 1..DefaultWorkers |-> [pc |-> "new", call |-> 0]]
    /\ mainPc = "launch"
    /\ stopCh = 0
    /\ signals = 0
    /\ timedOut = {}
    /\ delivered = [w \in 1..DefaultWorkers |-> <<>>]
    /\ trial = [sent |-> <<>>]

\* EnqueueTask of the execute_workflow task of a Run that was enqueued before
RepeatedPush ==
    /\ Len(trial.sent) < MaxForeign
    /\ \E id \in DOMAIN executions :
         queue' = EnqueueTask(queue, pushed + 1, ExecuteWorkflowTask,
                              [execution_id |-> id], TRUE).queue
    /\ pushed' = pushed + 1
    /\ trial' = [trial EXCEPT !.sent = Append(@, pushed + 1)]
    /\ UNCHANGED <<nodes, connections, executions, nodeExecutions, calls, workers,
                   mainPc, stopCh, signals, timedOut, delivered>>

NextRedelivery == NextWorker \/ RepeatedPush

SpecRedelivery == InitRedelivery /\ [][NextRedelivery]_vars

(***************************************************************************)
(* Faulty-task specification: the worker process while, besides the        *)
(* execution handler, another producer pushes up to MaxForeign entries     *)
(* onto the task list.  trial holds the numbers of the entries it pushed.  *)
(***************************************************************************)
\* list entries the worker cannot process: bytes that are no JSON, a task of
\* an unknown type, an execute_workflow task whose execution_id is no uint,
\* and one that names a Run that does not exist
ForeignEntries ==
    {<<"not json">>,
     MarshalTask([task_type |-> <<"x">>,
                  payload |-> MarshalJSON([execution_id |-> 1])]),
     MarshalTask([task_type |-> ExecuteWorkflowTask,
                  payload |-> MarshalJSON([execution_id |-> 0 - 1])]),
     MarshalTask([task_type |-> ExecuteWorkflowTask,
                  payload |-> MarshalJSON([execution_id |-> MaxRuns + 1])])}

InitWorkerFaults ==
    /\ nodes = <<1>>
    /\ connections = <<>>
    /\ executions = <<>>
    /\ nodeExecutions = <<>>
    /\ calls = <<>>
    /\ queue = <<>>
    /\ pushed = 0
    /\ workers = [w \in 1..NumWorkers |-> [pc |-> "new", call |-> 0]]
    /\ mainPc = "launch"
    /\ stopCh = 0
    /\ signals = 0
    /\ timedOut = {}
    /\ delivered = [w \in 1..NumWorkers |-> <<>>]
    /\ trial = [sent |-> <<>>]

\* RPush of an entry by the other producer
ForeignPush ==
    /\ Len(trial.sent) < MaxForeign
    /\ \E bytes \in ForeignEntries :
         queue' = Append(queue, [seq |-> pushed + 1, bytes |-> bytes])
    /\ pushed' = pushed + 1
    /\ trial' = [trial EXCEPT !.sent = Append(@, pushed + 1)]
    /\ UNCHANGED <<nodes, connections, executions, nodeExecutions, calls, workers,
                   mainPc, stopCh, signals, timedOut, delivered>>

NextWorkerFaults == NextWorker \/ ForeignPush

SpecWorkerFaults == InitWorkerFaults /\ [][NextWorkerFaults]_vars

(***************************************************************************)
(* Round-trip specification: a caller enqueues one task on an empty queue  *)
(* and then dequeues from it, for every task type of at most MaxTypeLen    *)
(* units and a set of payloads.                                            *)
(***************************************************************************)
TaskTypes ==
    SeqsUpTo({"execute_workflow", "x", InvalidByte, ReplacementChar}, MaxTypeLen)

Payloads ==
    {[execution_id |-> id] : id \in 0..MaxRuns} \cup {[data |-> 7], JSONUnsupported}

InitRoundTrip ==
    /\ nodes = <<>>
    /\ connections = <<>>
    /\ executions = <<>>
    /\ nodeExecutions = <<>>
    /\ calls = <<>>
    /\ queue = <<>>
    /\ pushed = 0
    /\ workers = <<>>
    /\ mainPc = "recv"
    /\ stopCh = 0
    /\ signals = 0
    /\ timedOut = {}
    /\ delivered = <<>>
    /\ \E taskType \in TaskTypes : \E payload \in Payloads :
         trial = [pc |-> "enqueue", taskType |-> taskType, payload |-> payload,
                  enqErr |-> NoErr, found |-> FALSE, deqErr |-> NoErr,
                  task |-> [task_type |-> <<>>, payload |-> <<>>]]

\* the caller's EnqueueTask(queueName, taskType, payload)
RoundTripEnqueue ==
    /\ trial.pc = "enqueue"
    /\ LET r == EnqueueTask(queue, pushed + 1, trial.taskType, trial.payload, TRUE)
       IN /\ queue' = r.queue
          /\ pushed' = IF r.err = NoErr THEN pushed + 1 ELSE pushed
          /\ trial' = [trial EXCEPT !.pc = "dequeue", !.enqErr = r.err]
    /\ UNCHANGED <<nodes, connections, executions, nodeExecutions, calls, workers,
                   mainPc, stopCh, signals, timedOut, delivered>>

\* the caller's DequeueTask(queueName, timeout)
RoundTripDequeue ==
    /\ trial.pc = "dequeue"
    /\ LET r == DequeueTask(queue)
       IN /\ queue' = r.queue
          /\ trial' = [trial EXCEPT !.pc = "done", !.found = r.found,
                                    !.deqErr = r.err,
                                    !.task = IF r.found THEN r.task ELSE @]
    /\ UNCHANGED <<nodes, connections, executions, nodeExecutions, calls, pushed,
                   workers, mainPc, stopCh, signals, timedOut, delivered>>

NextRoundTrip == RoundTripEnqueue \/ RoundTripDequeue

SpecRoundTrip == InitRoundTrip /\ [][NextRoundTrip]_vars

(***************************************************************************)
(* Poll specification: one DequeueTask call on a queue that stays empty,   *)
(* for every timeout of -MaxTimeout..MaxTimeout half seconds (the          *)
(* poll-interval flag accepts any duration and the worker passes it on     *)
(* unchanged).  Time is counted in half seconds; the clock stops at        *)
(* MaxClock seconds.                                                       *)
(***************************************************************************)
\* time.Second in the unit of the durations
Second == 2

\* the timeout argument BLPop sends to Redis, in whole seconds: a positive
\* duration below one second is raised to 1, any other is divided by
\* time.Second, truncating toward zero
formatSec(dur) ==
    IF dur > 0 /\ dur < Second THEN 1
    ELSE IF dur >= 0 THEN dur \div Second
    ELSE 0 - ((0 - dur) \div Second)

InitPoll ==
    /\ nodes = <<>>
    /\ connections = <<>>
    /\ executions = <<>>
    /\ nodeExecutions = <<>>
    /\ calls = <<>>
    /\ queue = <<>>
    /\ pushed = 0
    /\ workers = <<>>
    /\ mainPc = "recv"
    /\ stopCh = 0
    /\ signals = 0
    /\ timedOut = {}
    /\ delivered = <<>>
    /\ \E timeout \in (0 - MaxTimeout)..MaxTimeout :
         trial = [pc |-> "call", timeout |-> timeout, secs |-> 0, elapsed |-> 0,
                  found |-> FALSE, err |-> NoErr]

\* DequeueTask, line 79: BLPop sends the command; Redis rejects a negative
\* timeout at once, otherwise the call blocks on the empty list
PollCall ==
    /\ trial.pc = "call"
    /\ LET secs == formatSec(trial.timeout)
       IN IF secs < 0
          THEN trial' = [trial EXCEPT
                   !.pc = "done", !.secs = secs,
                   !.err = "failed to pop task from queue: ERR timeout is negative"]
          ELSE trial' = [trial EXCEPT !.pc = "blpop", !.secs = secs]
    /\ UNCHANGED <<nodes, connections, executions, nodeExecutions, calls, workerVars>>

\* a second passes while the call is blocked; a timeout of 0 seconds means
\* that Redis blocks without limit
PollTick ==
    /\ trial.pc = "blpop"
    /\ trial.secs = 0 \/ trial.elapsed < trial.secs
    /\ trial.elapsed < MaxClock
    /\ trial' = [trial EXCEPT !.elapsed = @ + 1]
    /\ UNCHANGED <<nodes, connections, executions, nodeExecutions, calls, workerVars>>

\* DequeueTask, lines 80-83: the timeout expired in Redis, BLPop returns
\* redis.Nil and DequeueTask returns nil, nil
PollReturn ==
    /\ trial.pc = "blpop"
    /\ trial.secs > 0
    /\ trial.elapsed = trial.secs
    /\ trial' = [trial EXCEPT !.pc = "done", !.found = FALSE, !.err = NoErr]
    /\ UNCHANGED <<nodes, connections, executions, nodeExecutions, calls, workerVars>>

NextPoll == PollCall \/ PollTick \/ PollReturn

SpecPoll == InitPoll /\ [][NextPoll]_vars

\* worker loop, lines 72-77: a DequeueTask call that takes an envelope from
\* the list (Redis answered)
Dequeued(w) == WorkerDequeue(w) /\ Len(queue') < Len(queue)

\* The Go scheduler runs every goroutine that can take a step: main launches
\* the workers, every worker loop and every engine goroutine goes on; a
\* worker that keeps calling DequeueTask on a non-empty list is eventually
\* answered by Redis.  Signals and timer expiries are not forced.
FairSpecWorker ==
    /\ SpecWorker
    /\ WF_vars(\E w \in 1..NumWorkers : MainLaunch(w))
    /\ \A w \in 1..NumWorkers :
         /\ WF_vars(WorkerSelect(w))
         /\ WF_vars(WorkerDequeue(w))
         /\ SF_vars(Dequeued(w))
         /\ WF_vars(WorkerExecutionDone(w))
    /\ \A c \in 1..MaxRuns : WF_vars(c \in DOMAIN calls /\ EngineStep(c))

(***************************************************************************)
(* Transform executor (internal/engine/executors.go).  A decoded JSON      *)
(* value is a record with its Go type t and its content v: nil, a string   *)
(* (a sequence of units; braces, the dot and the space are units of their  *)
(* own), a bool, an object (a function from key strings to values) or an   *)
(* array (a sequence of values).                                           *)
(***************************************************************************)
Nil == [t |-> "nil", v |-> <<>>]
Str(text) == [t |-> "string", v |-> text]
Bool(b) == [t |-> "bool", v |-> b]
Obj(f) == [t |-> "object", v |-> f]
Arr(seq) == [t |-> "array", v |-> seq]

\* strings.HasPrefix, strings.HasSuffix
HasPrefix(text, prefix) ==
    /\ Len(text) >= Len(prefix)
    /\ SubSeq(text, 1, Len(prefix)) = prefix

HasSuffix(text, suffix) ==
    /\ Len(text) >= Len(suffix)
    /\ SubSeq(text, Len(text) - Len(suffix) + 1, Len(text)) = suffix

\* strings.TrimSpace
RECURSIVE TrimSpace(_)
TrimSpace(text) ==
    IF text = <<>> THEN text
    ELSE IF Head(text) = " " THEN TrimSpace(Tail(text))
    ELSE IF text[Len(text)] = " " THEN TrimSpace(SubSeq(text, 1, Len(text) - 1))
    ELSE text

\* strings.Split(text, "."): the pieces between the dots
RECURSIVE Split(_, _)
Split(text, piece) ==
    IF text = <<>> THEN <<piece>>
    ELSE IF Head(text) = "." THEN <<piece>> \o Split(Tail(text), <<>>)
    ELSE Split(Tail(text), Append(piece, Head(text)))

\* the loop of getNestedValue over the parts of the path
RECURSIVE walkParts(_, _)
walkParts(current, parts) ==
    IF parts = <<>> THEN current
    ELSE IF current.t = "object" /\ Head(parts) \in DOMAIN current.v
    THEN walkParts(current.v[Head(parts)], Tail(parts))
    ELSE Nil

\* TransformExecutor.getNestedValue
getNestedValue(item, fieldPath) ==
    IF fieldPath = <<>> THEN item
    ELSE walkParts(item, Split(fieldPath, <<>>))

\* TransformExecutor.applyMapping
RECURSIVE applyMapping(_, _)
applyMapping(item, mapping) ==
    IF mapping.t = "object"
    THEN Obj([key \in DOMAIN mapping.v |->
                LET value == mapping.v[key]
                IN IF value.t = "string"
                   THEN IF /\ HasPrefix(value.v, <<"{", "{">>)
                           /\ HasSuffix(value.v, <<"}", "}">>)
                        THEN getNestedValue(item,
                                 TrimSpace(SubSeq(value.v, 3, Len(value.v) - 2)))
                        ELSE value
                   ELSE IF value.t \in {"object", "array"}
                   THEN applyMapping(item, value)
                   ELSE value])
    ELSE IF mapping.t = "array"
    THEN Arr([i \in DOMAIN mapping.v |-> applyMapping(item, mapping.v[i])])
    ELSE mapping

(***************************************************************************)
(* Transform specification: applyMapping on one item, for mappings         *)
(* {"full": template} whose template is a text or up to MaxExprs template  *)
(* expressions separated by a space.                                       *)
(***************************************************************************)
Paths == {<<"first">>, <<"last">>, <<"user", ".", "first">>, <<"missing">>, <<>>}

\* the expression {{path}}, with or without blanks inside the braces
Exprs ==
    {<<"{", "{">> \o pad \o path \o pad \o <<"}", "}">> :
        pad \in {<<>>, <<" ">>}, path \in Paths}

RECURSIVE TemplatesOf(_)
TemplatesOf(k) ==
    IF k = 1 THEN Exprs
    ELSE {t \o <<" ">> \o e : t \in TemplatesOf(k - 1), e \in Exprs}

Templates ==
    {<<"first">>, <<"A", " ", "B">>} \cup UNION {TemplatesOf(k) : k \in 1..MaxExprs}

Items ==
    {Obj((<<"first">> :> Str(<<"A">>)) @@ (<<"last">> :> Str(<<"B">>))),
     Obj((<<"first">> :> Str(<<"A">>)) @@ (<<"last">> :> Str(<<"B">>))
            @@ (<<"user">> :> Obj(<<"first">> :> Str(<<"C">>))))}

InitTransform ==
    /\ nodes = <<>>
    /\ connections = <<>>
    /\ executions = <<>>
    /\ nodeExecutions = <<>>
    /\ calls = <<>>
    /\ queue = <<>>
    /\ pushed = 0
    /\ workers = <<>>
    /\ mainPc = "recv"
    /\ stopCh = 0
    /\ signals = 0
    /\ timedOut = {}
    /\ delivered = <<>>
    /\ \E template \in Templates : \E item \in Items :
         trial = [pc |-> "apply", item |-> item,
                  mapping |-> Obj(<<"full">> :> Str(template)),
                  result |-> Nil]

\* TransformExecutor.Execute, lines 284-287: the mapping is applied to the item
TransformApply ==
    /\ trial.pc = "apply"
    /\ trial' = [trial EXCEPT !.pc = "done",
                              !.result = applyMapping(trial.item, trial.mapping)]
    /\ UNCHANGED <<nodes, connections, executions, nodeExecutions, calls, workerVars>>

NextTransform == TransformApply

SpecTransform == InitTransform /\ [][NextTransform]_vars

(***************************************************************************)
(* Filter executor (internal/engine/executors.go).                         *)
(***************************************************************************)
\* a decoded JSON number, held by the decimal text %v prints for it
Num(n) == [t |-> "number", v |-> <<ToString(n)>>]

\* the texts joined with a blank between them
RECURSIVE JoinBlank(_)
JoinBlank(texts) ==
    IF texts = <<>> THEN <<>>
    ELSE IF Len(texts) = 1 THEN texts[1]
    ELSE texts[1] \o <<" ">> \o JoinBlank(Tail(texts))

\* the object keys of the model in the order fmt prints map keys (sorted)
KeyOrder == <<<<"first">>, <<"id">>, <<"last">>, <<"status">>, <<"user">>>>

\* fmt.Sprintf("%v", x)
RECURSIVE Sprint(_)
Sprint(x) ==
    IF x.t = "nil" THEN <<"<nil>">>
    ELSE IF x.t = "string" THEN x.v
    ELSE IF x.t = "bool" THEN (IF x.v THEN <<"true">> ELSE <<"false">>)
    ELSE IF x.t = "number" THEN x.v
    ELSE IF x.t = "array"
    THEN <<"[">> \o JoinBlank([i \in DOMAIN x.v |-> Sprint(x.v[i])]) \o <<"]">>
    ELSE LET keys == SelectSeq(KeyOrder, LAMBDA k : k \in DOMAIN x.v)
         IN <<"map[">>
              \o JoinBlank([i \in DOMAIN keys |->
                              keys[i] \o <<":">> \o Sprint(x.v[keys[i]])])
              \o <<"]">>

\* strings.Contains
Contains(text, sub) ==
    \E i \in 1..(Len(text) + 1) :
        /\ i + Len(sub) - 1 <= Len(text)
        /\ SubSeq(text, i, i + Len(sub) - 1) = sub

\* compareValues whose equals tests for a substring
compareValues_EqualsAsContains(value1, value2, operator) ==
    IF operator = "equals" THEN Contains(Sprint(value1), Sprint(value2))
    ELSE IF operator = "not_equals" THEN Sprint(value1) # Sprint(value2)
    ELSE IF operator = "contains" THEN Contains(Sprint(value1), Sprint(value2))
    ELSE FALSE

\* compareValues whose ordering operators hold whenever the texts differ
compareValues_OrderAsNotEquals(value1, value2, operator) ==
    IF operator = "equals" THEN Sprint(value1) = Sprint(value2)
    ELSE IF operator = "not_equals" THEN Sprint(value1) # Sprint(value2)
    ELSE IF operator = "contains" THEN Contains(Sprint(value1), Sprint(value2))
    ELSE IF operator = "greater_than" THEN Sprint(value1) # Sprint(value2)
    ELSE IF operator = "less_than" THEN Sprint(value1) # Sprint(value2)
    ELSE FALSE

\* FilterExecutor.compareValues
compareValues(value1, value2, operator) ==
    IF operator = "equals" THEN Sprint(value1) = Sprint(value2)
    ELSE IF operator = "not_equals" THEN Sprint(value1) # Sprint(value2)
    ELSE IF operator = "contains" THEN Contains(Sprint(value1), Sprint(value2))
    ELSE IF operator = "greater_than" THEN FALSE
    ELSE IF operator = "less_than" THEN FALSE
    ELSE FALSE

\* the input normalisation of FilterExecutor.Execute and
\* TransformExecutor.Execute: the items of the only input, or of the input
\* named "input"; input is a function from handle names to values
inputItems(input) ==
    IF Cardinality(DOMAIN input) = 1
    THEN LET val == input[CHOOSE h \in DOMAIN input : TRUE]
         IN IF val.t = "array" THEN val.v ELSE <<val>>
    ELSE IF "input" \in DOMAIN input /\ input["input"].t = "array"
    THEN input["input"].v
    ELSE <<>>

\* the filter loop of FilterExecutor.Execute
RECURSIVE filterItems(_, _, _, _, _)
filterItems(items, field, value, operator, filtered) ==
    IF items = <<>> THEN filtered
    ELSE LET item == Head(items)
             itemValue == getNestedValue(item, field)
         IN filterItems(Tail(items), field, value, operator,
                IF compareValues(itemValue, value, operator)
                THEN Append(filtered, item) ELSE filtered)

\* FilterExecutor.Execute; config is a record with the field path, the
\* operator ("" when absent) and the value; a nil result slice is the empty
\* list
FilterExecute(config, input) ==
    LET filterOperator == IF config.operator = "" THEN "equals" ELSE config.operator
    IN Arr(filterItems(inputItems(input), config.field, config.value,
                       filterOperator, <<>>))

(***************************************************************************)
(* Mapping specification: one call of TransformExecutor.Execute with a     *)
(* list of at most MaxItems items on a single port, for a mapping that     *)
(* holds one leaf (a template expression, a text or another scalar) as a   *)
(* map value, as a list element, nested in maps and lists, or as the whole *)
(* mapping.                                                                *)
(***************************************************************************)
ErrMappingRequired == "mapping is required in config"

\* the loop of TransformExecutor.Execute over the items
mapItems(items, mapping) ==
    [i \in DOMAIN items |-> applyMapping(items[i], mapping)]

\* TransformExecutor.Execute; config is a record that tells whether the key
\* "mapping" is present and holds its value; a nil result slice is the empty
\* list
TransformExecute(config, input) ==
    IF ~ config.present
    THEN [err |-> ErrMappingRequired, result |-> Nil]
    ELSE [err |-> NoErr,
          result |-> Arr(mapItems(inputItems(input), config.mapping))]

LeafKinds == {"template", "text", "number", "bool", "nil"}

LeafTexts == Exprs \cup {<<"first">>, <<"{", "{", "first", "}">>}

\* the leaf of the mapping
LeafOf(kind, text) ==
    CASE kind = "template" -> Str(text)
      [] kind = "text" -> Str(<<"A", " ", "B">>)
      [] kind = "number" -> Num(1)
      [] kind = "bool" -> Bool(TRUE)
      [] OTHER -> Nil

MappingShapes ==
    {"value", "nested", "list", "topList", "mapInList", "listInList", "whole"}

\* the mapping document that holds the leaf at the place the shape names
MappingOf(shape, leaf) ==
    CASE shape = "value" -> Obj(<<"full">> :> leaf)
      [] shape = "nested" -> Obj(<<"out">> :> Obj(<<"full">> :> leaf))
      [] shape = "list" -> Obj(<<"out">> :> Arr(<<leaf>>))
      [] shape = "topList" -> Arr(<<leaf>>)
      [] shape = "mapInList" -> Arr(<<Obj(<<"full">> :> leaf)>>)
      [] shape = "listInList" -> Arr(<<Arr(<<leaf>>)>>)
      [] OTHER -> leaf

InitMapping ==
    /\ nodes = <<>>
    /\ connections = <<>>
    /\ executions = <<>>
    /\ nodeExecutions = <<>>
    /\ calls = <<>>
    /\ queue = <<>>
    /\ pushed = 0
    /\ workers = <<>>
    /\ mainPc = "recv"
    /\ stopCh = 0
    /\ signals = 0
    /\ timedOut = {}
    /\ delivered = <<>>
    /\ \E shape \in MappingShapes, kind \in LeafKinds, text \in LeafTexts,
          present \in BOOLEAN, items \in SeqsUpTo(Items, MaxItems) :
         /\ kind # "template" => text = <<"first">>
         /\ ~ present => shape = "whole" /\ kind = "nil"
         /\ trial = [pc |-> "execute", shape |-> shape,
                     config |-> [present |-> present,
                                 mapping |-> MappingOf(shape, LeafOf(kind, text))],
                     input |-> [h \in {"input"} |-> Arr(items)],
                     err |-> NoErr,
                     result |-> Nil]

\* the engine's executor.Execute(config, inputData) for a transform node
TransformCall ==
    /\ trial.pc = "execute"
    /\ LET out == TransformExecute(trial.config, trial.input)
       IN trial' = [trial EXCEPT !.pc = "done", !.err = out.err,
                                 !.result = out.result]
    /\ UNCHANGED <<nodes, connections, executions, nodeExecutions, calls, workerVars>>

NextMapping == TransformCall

SpecMapping == InitMapping /\ [][NextMapping]_vars

(***************************************************************************)
(* Filter specification: one call of FilterExecutor.Execute with a list of *)
(* at most MaxItems items on a single port.                                *)
(***************************************************************************)
FilterFields == {<<"status">>, <<"user", ".", "status">>, <<"id">>, <<>>}

FilterOperators ==
    {"", "equals", "not_equals", "contains", "greater_than", "less_than", "matches"}

FilterValues == {Str(<<"active">>), Str(<<"1">>), Num(1), Num(0), Nil}

FilterItems ==
    {Obj(<<"status">> :> Str(<<"active">>)),
     Obj(<<"status">> :> Str(<<"in", "active">>)),
     Obj((<<"id">> :> Num(1)) @@ (<<"user">> :> Obj(<<"status">> :> Str(<<"active">>)))),
     Obj((<<"id">> :> Str(<<"1">>)) @@ (<<"status">> :> Nil)),
     Nil}

InitFilter ==
    /\ nodes = <<>>
    /\ connections = <<>>
    /\ executions = <<>>
    /\ nodeExecutions = <<>>
    /\ calls = <<>>
    /\ queue = <<>>
    /\ pushed = 0
    /\ workers = <<>>
    /\ mainPc = "recv"
    /\ stopCh = 0
    /\ signals = 0
    /\ timedOut = {}
    /\ delivered = <<>>
    /\ \E field \in FilterFields, operator \in FilterOperators,
          value \in FilterValues, items \in SeqsUpTo(FilterItems, MaxItems) :
         trial = [pc |-> "execute",
                  config |-> [field |-> field, operator |-> operator,
                              value |-> value],
                  input |-> [h \in {"input"} |-> Arr(items)],
                  result |-> Nil]

\* the engine's executor.Execute(config, inputData) for a filter node
FilterCall ==
    /\ trial.pc = "execute"
    /\ trial' = [trial EXCEPT !.pc = "done",
                              !.result = FilterExecute(trial.config, trial.input)]
    /\ UNCHANGED <<nodes, connections, executions, nodeExecutions, calls, workerVars>>

NextFilter == FilterCall

SpecFilter == InitFilter /\ [][NextFilter]_vars

(***************************************************************************)
(* Filter chain specification: a Run of the workflow 1 -> 2 (target handle *)
(* "input") in which node 1 produces a list of objects and node 2 is a     *)
(* filter node.  trial holds the Run's context, the filter configuration   *)
(* of node 2 and the outputs of the two nodes.                             *)
(***************************************************************************)
\* the items an upstream node produces: JSON objects
ObjectItems == {item \in FilterItems : item.t = "object"}

\* the map[string]interface{} Engine.prepareNodeInput hands to an executor:
\* each handle holds the []interface{} collected for it
AsExecutorInput(inputData) == [h \in DOMAIN inputData |-> Arr(inputData[h])]

InitFilterChain ==
    /\ nodes = <<1, 2>>
    /\ connections = <<[SourceNodeID |-> 1, TargetNodeID |-> 2,
                        TargetHandle |-> "input"]>>
    /\ executions = <<>>
    /\ nodeExecutions = <<>>
    /\ calls = <<>>
    /\ queue = <<>>
    /\ pushed = 0
    /\ workers = <<>>
    /\ mainPc = "recv"
    /\ stopCh = 0
    /\ signals = 0
    /\ timedOut = {}
    /\ delivered = <<>>
    /\ \E field \in FilterFields, operator \in FilterOperators,
          value \in FilterValues, items \in SeqsUpTo(ObjectItems, MaxItems) :
         trial = [pc |-> "node1",
                  config |-> [field |-> field, operator |-> operator,
                              value |-> value],
                  upstream |-> Arr(items),
                  context |-> [Input |-> <<>>, Results |-> <<>>],
                  input |-> <<>>,
                  result |-> Nil]

\* Engine.executeNode for node 1: its executor returns the list, which is
\* stored in the Run's result table
ChainNode1 ==
    /\ trial.pc = "node1"
    /\ trial' = [trial EXCEPT !.pc = "node2",
                              !.context.Results = (1 :> trial.upstream)]
    /\ UNCHANGED <<nodes, connections, executions, nodeExecutions, calls, workerVars>>

\* Engine.executeNode for node 2: prepareNodeInput, then the filter executor
ChainNode2 ==
    /\ trial.pc = "node2"
    /\ LET inputData == AsExecutorInput(prepareNodeInput(2, trial.context))
           result == FilterExecute(trial.config, inputData)
       IN trial' = [trial EXCEPT
                       !.pc = "done",
                       !.input = inputData,
                       !.result = result,
                       !.context.Results = (2 :> result) @@ trial.context.Results]
    /\ UNCHANGED <<nodes, connections, executions, nodeExecutions, calls, workerVars>>

NextFilterChain == ChainNode1 \/ ChainNode2

SpecFilterChain == InitFilterChain /\ [][NextFilterChain]_vars

(***************************************************************************)
(* Executor resolution (internal/database/database.go,                     *)
(* internal/engine/executors.go).  Keys and executor classes are texts;    *)
(* the prefix "plugin:" is one unit, followed by the path.                 *)
(***************************************************************************)
\* the rows registerDefaultNodeTypes writes into the node type table
DefaultNodeTypes ==
    {[Key |-> <<"httpRequest">>, ExecutorClass |-> <<"httpRequest">>],
     [Key |-> <<"filter">>, ExecutorClass |-> <<"filter">>],
     [Key |-> <<"transform">>, ExecutorClass |-> <<"transform">>]}

\* rows that only a direct write to the node type table can add: no handler
\* of the REST layer creates node types
ExtraNodeTypes ==
    {[Key |-> <<"custom">>, ExecutorClass |-> <<"customClass">>],
     [Key |-> <<"math">>, ExecutorClass |-> <<"plugin:", "good.so">>],
     [Key |-> <<"plugin:", "good.so">>, ExecutorClass |-> <<"plugin:", "good.so">>],
     [Key |-> <<"plugin:", "missing.so">>, ExecutorClass |-> <<"plugin:", "missing.so">>],
     [Key |-> <<"plugin:", "bad.so">>, ExecutorClass |-> <<"plugin:", "bad.so">>],
     [Key |-> <<"typed">>, ExecutorClass |-> <<"plugin:", "wrongtype.so">>],
     [Key |-> <<"plugin:", "other.so">>, ExecutorClass |-> <<"filter">>]}

\* the node_type values a node is created with
NodeTypeKeys ==
    {<<"httpRequest">>, <<"filter">>, <<"transform">>, <<"custom">>, <<"math">>,
     <<"unknown">>, <<"plugin:", "good.so">>, <<"plugin:", "missing.so">>,
     <<"plugin:", "bad.so">>, <<"plugin:", "other.so">>, <<"typed">>}

\* database.DB.Where("key = ?", key).First(&nodeType)
NodeTypeByKey(registry, key) ==
    IF \E row \in registry : row.Key = key
    THEN [err |-> NoErr, nodeType |-> CHOOSE row \in registry : row.Key = key]
    ELSE [err |-> ErrRecordNotFound,
          nodeType |-> [Key |-> <<>>, ExecutorClass |-> <<>>]]

\* strings.TrimPrefix
TrimPrefix(text, prefix) ==
    IF HasPrefix(text, prefix) THEN SubSeq(text, Len(prefix) + 1, Len(text))
    ELSE text

ErrPluginOpen == "plugin.Open: realpath failed"
ErrPluginLookup == "plugin: symbol NewExecutor not found"
ErrPluginFactory == "plugin does not provide a valid NewExecutor function"

\* loadPluginExecutor: the outcome depends on the file at the path
loadPluginExecutor(pluginPath) ==
    IF pluginPath = <<"good.so">>
    THEN [err |-> NoErr, executor |-> <<"plugin:">> \o pluginPath]
    ELSE IF pluginPath = <<"bad.so">>
    THEN [err |-> ErrPluginLookup, executor |-> <<>>]
    ELSE IF pluginPath = <<"wrongtype.so">>
    THEN [err |-> ErrPluginFactory, executor |-> <<>>]
    ELSE [err |-> ErrPluginOpen, executor |-> <<>>]

\* LoadExecutor; plugin tells whether the plugin branch was taken, and path
\* with which path
LoadExecutor(executorClass) ==
    IF executorClass \in {<<"httpRequest">>, <<"filter">>, <<"transform">>}
    THEN [err |-> NoErr, executor |-> executorClass, plugin |-> FALSE, path |-> <<>>]
    ELSE IF HasPrefix(executorClass, <<"plugin:">>)
    THEN LET pluginPath == TrimPrefix(executorClass, <<"plugin:">>)
             r == loadPluginExecutor(pluginPath)
         IN [err |-> r.err, executor |-> r.executor, plugin |-> TRUE,
             path |-> pluginPath]
    ELSE [err |-> ErrUnknownExecutor, executor |-> <<>>, plugin |-> FALSE,
          path |-> <<>>]

(***************************************************************************)
(* Resolution specification: one Run of a workflow with the single node 1, *)
(* for every node_type of the node and every node type table.  trial holds *)
(* the node's type, the table and the engine's position and locals.        *)
(***************************************************************************)
InitResolve ==
    /\ nodes = <<1>>
    /\ connections = <<>>
    /\ \E input \in RunInputs : executions = <<NewExecution(input)>>
    /\ nodeExecutions = <<>>
    /\ calls = <<>>
    /\ queue = <<>>
    /\ pushed = 0
    /\ workers = <<>>
    /\ mainPc = "recv"
    /\ stopCh = 0
    /\ signals = 0
    /\ timedOut = {}
    /\ delivered = <<>>
    /\ \E key \in NodeTypeKeys, extra \in SUBSET ExtraNodeTypes :
         trial = [pc |-> "start",
                  NodeType |-> key,
                  registry |-> DefaultNodeTypes \cup extra,
                  nodeType |-> [Key |-> <<>>, ExecutorClass |-> <<>>],
                  plugin |-> FALSE,
                  path |-> <<>>,
                  executor |-> <<>>,
                  err |-> NoErr]

\* Engine.ExecuteWorkflow, lines 22-35: the Run is marked running and
\* executeWorkflowInternal calls executeNode for the start node
ResolveStart ==
    /\ trial.pc = "start"
    /\ executions' = [executions EXCEPT ![1].Status = "running"]
    /\ trial' = [trial EXCEPT !.pc = "nodeType"]
    /\ UNCHANGED <<nodes, connections, nodeExecutions, calls, workerVars>>

\* Engine.executeNode, lines 103-123: node type lookup, step-run creation
ResolveNodeType ==
    /\ trial.pc = "nodeType"
    /\ LET r == NodeTypeByKey(trial.registry, trial.NodeType)
       IN IF r.err # NoErr
          THEN /\ trial' = [trial EXCEPT !.pc = "complete", !.err = r.err]
               /\ UNCHANGED nodeExecutions
          ELSE /\ trial' = [trial EXCEPT !.pc = "executor", !.nodeType = r.nodeType]
               /\ nodeExecutions' = Append(nodeExecutions,
                      [WorkflowExecutionID |-> 1,
                       NodeID |-> 1,
                       Status |-> "running",
                       InputData |-> <<>>, OutputData |-> <<>>,
                       ErrorMessage |-> <<>>, CompletedAt |-> FALSE])
    /\ UNCHANGED <<nodes, connections, executions, calls, workerVars>>

\* Engine.executeNode, lines 125-169: input, LoadExecutor, and with an
\* executor the node's execution (which succeeds here)
ResolveExecutor ==
    /\ trial.pc = "executor"
    /\ LET r == LoadExecutor(trial.nodeType.ExecutorClass)
           row == [nodeExecutions[1] EXCEPT
                      !.InputData = MarshalJSON(executions[1].InputData.value)]
       IN /\ trial' = [trial EXCEPT !.pc = "complete",
                                    !.plugin = r.plugin,
                                    !.path = r.path,
                                    !.executor = r.executor,
                                    !.err = r.err]
          /\ nodeExecutions' =
                IF r.err # NoErr
                THEN <<[row EXCEPT !.Status = "failed",
                                   !.ErrorMessage = <<"failed to load executor: ",
                                                      r.err>>]>>
                ELSE <<[row EXCEPT !.OutputData = MarshalJSON(Result(1)),
                                   !.Status = "completed",
                                   !.CompletedAt = TRUE]>>
    /\ UNCHANGED <<nodes, connections, executions, calls, workerVars>>

\* Engine.ExecuteWorkflow, lines 37-48: completion
ResolveComplete ==
    /\ trial.pc = "complete"
    /\ executions' =
          [executions EXCEPT ![1] =
              IF trial.err # NoErr
              THEN [@ EXCEPT !.CompletedAt = TRUE, !.Status = "failed",
                             !.ErrorMessage = trial.err]
              ELSE [@ EXCEPT !.CompletedAt = TRUE, !.Status = "completed",
                             !.OutputData = MarshalJSON(1 :> Result(1))]]
    /\ trial' = [trial EXCEPT !.pc = "returned"]
    /\ UNCHANGED <<nodes, connections, nodeExecutions, calls, workerVars>>

NextResolve == ResolveStart \/ ResolveNodeType \/ ResolveExecutor \/ ResolveComplete

SpecResolve == InitResolve /\ [][NextResolve]_vars

(***************************************************************************)
(* Graph notions used by the properties.                                   *)
(***************************************************************************)
NodeSet == Range(nodes)

Successors(S) ==
    {connections[i].TargetNodeID :
        i \in {j \in DOMAIN connections : connections[j].SourceNodeID \in S}}

RECURSIVE Closure(_, _)
Closure(S, k) == IF k = 0 THEN S ELSE Closure(S \cup Successors(S), k - 1)

SourceNodes ==
    {n \in NodeSet : ~ \E i \in DOMAIN connections : connections[i].TargetNodeID = n}

\* the nodes reachable from a source node by following connections forward
ReachableNodes == Closure(SourceNodes, Len(nodes))

\* n lies on a cycle of the graph
OnCycle(n) == n \in Closure(Successors({n}), Len(nodes))

HasCycle == \E n \in NodeSet : OnCycle(n)

\* the step-runs (row ids) of a node in a Run, and those of a Run with a status
StepRunsOf(id, n) ==
    {k \in DOMAIN nodeExecutions :
        /\ nodeExecutions[k].WorkflowExecutionID = id
        /\ nodeExecutions[k].NodeID = n}

StepRunsWith(id, status) ==
    {k \in DOMAIN nodeExecutions :
        /\ nodeExecutions[k].WorkflowExecutionID = id
        /\ nodeExecutions[k].Status = status}

RowsOf(id) ==
    SelectSeq(nodeExecutions, LAMBDA row : row.WorkflowExecutionID = id)

\* the call of a Run has returned
Returned(id) ==
    \E c \in DOMAIN calls : calls[c].executionID = id /\ calls[c].pc = "returned"

(***************************************************************************)
(* Properties.                                                             *)
(***************************************************************************)

\* C1: on an acyclic graph, a Run that ends completed (every executor
\* succeeded) has exactly one step-run for each node reachable from a source.
C1_ExactlyOnce ==
    \A id \in DOMAIN executions :
        (~ HasCycle /\ executions[id].Status = "completed")
            => \A n \in ReachableNodes : Cardinality(StepRunsOf(id, n)) = 1

\* C2: a step-run is created for a node only in a state in which every
\* connection terminating at the node has a source with a completed step-run
\* of the same Run.
C2_StartsOnlyWhenReady ==
    [][Len(nodeExecutions') > Len(nodeExecutions)
        => LET row == nodeExecutions'[Len(nodeExecutions')]
           IN \A i \in DOMAIN connections :
                connections[i].TargetNodeID = row.NodeID
                    => \E k \in StepRunsOf(row.WorkflowExecutionID,
                                           connections[i].SourceNodeID) :
                           nodeExecutions[k].Status = "completed"]_vars

\* a node fed by two different sources has started in the second Run, after
\* the first Run left completed step-runs of the same nodes behind
C2_Witness ==
    \E k \in DOMAIN nodeExecutions :
        /\ nodeExecutions[k].WorkflowExecutionID = 2
        /\ StepRunsWith(1, "completed") # {}
        /\ \E i, j \in DOMAIN connections :
             /\ connections[i].TargetNodeID = nodeExecutions[k].NodeID
             /\ connections[j].TargetNodeID = nodeExecutions[k].NodeID
             /\ connections[i].SourceNodeID # connections[j].SourceNodeID

\* C3: when ExecuteWorkflow has returned for a Run in which an executor
\* returned an error, the Run is failed, its error text is that executor
\* error and is not empty, and the failing step-run is the Run's only failed one.
C3_ExecutorErrorFailsRun ==
    \A id \in DOMAIN executions : \A k \in DOMAIN nodeExecutions :
        (/\ Returned(id)
         /\ nodeExecutions[k].WorkflowExecutionID = id
         /\ nodeExecutions[k].ErrorMessage # <<>>
         /\ nodeExecutions[k].ErrorMessage[1] = "execution failed: ")
            => /\ executions[id].Status = "failed"
               /\ executions[id].ErrorMessage # ""
               /\ executions[id].ErrorMessage = nodeExecutions[k].ErrorMessage[2]
               /\ StepRunsWith(id, "failed") = {k}

\* a Run has returned after the executor of one of its nodes failed, with
\* other step-runs of the Run completed before
C3_Witness ==
    \E id \in DOMAIN executions : \E k \in DOMAIN nodeExecutions :
        /\ Returned(id)
        /\ nodeExecutions[k].WorkflowExecutionID = id
        /\ nodeExecutions[k].ErrorMessage # <<>>
        /\ nodeExecutions[k].ErrorMessage[1] = "execution failed: "
        /\ StepRunsWith(id, "completed") # {}

\* C4: once a Run has a failed step-run, no step changes the step-runs of
\* that Run: none is created and the completed ones keep status and output.
C4_NothingAfterFailure ==
    [][\A id \in DOMAIN executions :
          StepRunsWith(id, "failed") # {} => RowsOf(id)' = RowsOf(id)]_vars

\* a Run has returned with a failed step-run, a completed one before it, and
\* nodes of the workflow that were never started
C4_Witness ==
    \E id \in DOMAIN executions :
        /\ Returned(id)
        /\ StepRunsWith(id, "failed") # {}
        /\ StepRunsWith(id, "completed") # {}
        /\ \E n \in NodeSet : StepRunsOf(id, n) = {}

\* C5: in a workflow where every node has an incoming connection no step-run
\* is ever created, and a returned ExecuteWorkflow has left the Run failed
\* with the no-start-node error.
C5_NoStartNodes ==
    SourceNodes = {}
        => /\ nodeExecutions = <<>>
           /\ \A id \in DOMAIN executions :
                Returned(id) => /\ executions[id].Status = "failed"
                                /\ executions[id].ErrorMessage = ErrNoStartNodes

\* ExecuteWorkflow has returned on a workflow with nodes but no source node
C5_Witness ==
    /\ NodeSet # {}
    /\ SourceNodes = {}
    /\ \E id \in DOMAIN executions : Returned(id)

\* C10 (as stated): on a graph that contains a cycle ExecuteWorkflow never
\* returns.
C10_NeverReturns ==
    HasCycle => \A id \in DOMAIN executions : ~ Returned(id)

\* every Run has been handed to ExecuteWorkflow and the call has returned
AllReturned == \A id \in DOMAIN executions : Returned(id)

\* C10 (amended): on a graph that contains a cycle no node of a cycle ever
\* gets a step-run, the recursion is never deeper than the number of nodes,
\* and every ExecuteWorkflow call returns.
C10_CycleNeverRuns ==
    /\ [](HasCycle
            => /\ \A k \in DOMAIN nodeExecutions :
                    ~ OnCycle(nodeExecutions[k].NodeID)
               /\ \A c \in DOMAIN calls : Len(calls[c].stack) <= Len(nodes))
    /\ (HasCycle ~> AllReturned)

\* ExecuteWorkflow has returned with the Run completed on a graph with a
\* cycle, after executing a node outside the cycle
C10_Witness ==
    /\ HasCycle
    /\ \E id \in DOMAIN executions :
         /\ Returned(id)
         /\ executions[id].Status = "completed"
         /\ StepRunsWith(id, "completed") # {}

\* number of times list entry seq is in the queue / was returned by DequeueTask
InQueueCount(seq) == Cardinality({i \in DOMAIN queue : queue[i].seq = seq})

DeliveredCount(seq) ==
    Cardinality({wi \in (DOMAIN delivered) \X (1..pushed) :
                    /\ wi[2] \in DOMAIN delivered[wi[1]]
                    /\ delivered[wi[1]][wi[2]] = seq})

\* C6: with the worker loops dequeuing concurrently, every pushed envelope is
\* either still in the queue or has been returned by DequeueTask exactly once,
\* to one worker.
C6_ExactlyOneCaller ==
    \A seq \in 1..pushed : InQueueCount(seq) + DeliveredCount(seq) = 1

\* two different worker loops have each been handed an envelope
C6_Witness ==
    \E v, w \in DOMAIN delivered :
        v # w /\ delivered[v] # <<>> /\ delivered[w] # <<>>

\* the Run status that goes with the position of its engine call
StatusAt(pc) ==
    IF pc = "load" THEN {"pending"}
    ELSE IF pc = "returned" THEN {"completed", "failed"}
    ELSE {"running"}

C8_EveryLoopStops ==
    [][\A w \in 1..NumWorkers :
          (signals > 0 /\ workers[w].pc = "select")
              => workers'[w].pc # "dequeue"]_vars

\* C9: once the shutdown signal has been taken from stopCh, main's shutdown
\* sequence has started.
C9_ShutdownStarts ==
    (signals > 0 /\ stopCh = 0) => mainPc \in {"grace", "exit"}

\* the engine calls made for a Run
CallsOf(id) == {c \in DOMAIN calls : calls[c].executionID = id}

\* the status changes a Run may go through
Lifecycle ==
    {<<"pending", "running">>, <<"running", "completed">>, <<"running", "failed">>}

\* C11: with each run id enqueued once, a Run's status changes only along
\* pending -> running -> completed or failed; it is pending until its engine
\* call begins, running while the call is at work, and when the call has
\* returned it is completed if the call returned no error and failed
\* otherwise; a completed or failed status is never changed.
C11_StatusLifecycle ==
    /\ [](\A id \in DOMAIN executions :
            /\ Cardinality(CallsOf(id)) <= 1
            /\ CallsOf(id) = {} => executions[id].Status = "pending"
            /\ \A c \in CallsOf(id) :
                 /\ executions[id].Status \in StatusAt(calls[c].pc)
                 /\ calls[c].pc = "returned"
                      => (executions[id].Status = "completed"
                            <=> calls[c].err = NoErr))
    /\ [][\A id \in DOMAIN executions :
            executions'[id].Status # executions[id].Status
                => <<executions[id].Status, executions'[id].Status>> \in Lifecycle]_vars

\* one Run has ended completed and another failed, each after its envelope
\* was dequeued by a worker
C11_Witness ==
    \E id, jd \in DOMAIN executions :
        /\ Returned(id) /\ executions[id].Status = "completed"
        /\ Returned(jd) /\ executions[jd].Status = "failed"
        /\ \A w \in DOMAIN delivered : Len(delivered[w]) <= 1

\* the result table of a Run: the output of every node that has a completed
\* step-run in the Run
ResultTable(id) ==
    [n \in {m \in NodeSet : HasCompleted(id, m)} |-> Result(n)]

\* the keys and values read from a Run's output document; a document that was
\* never written holds no key
OutputTable(id) ==
    IF executions[id].OutputData = <<>> THEN <<>>
    ELSE UnmarshalJSON(executions[id].OutputData).value

\* C12: when ExecuteWorkflow has returned, the Run's output document holds the
\* result table, whether the Run ended completed or failed: a key for every
\* node with a completed step-run in the Run, mapped to the node's output, and
\* no other key.
C12_OutputIsResultTable ==
    \A id \in DOMAIN executions :
        Returned(id)
            => /\ DOMAIN OutputTable(id) = DOMAIN ResultTable(id)
               /\ \A n \in DOMAIN ResultTable(id) :
                    OutputTable(id)[n] = ResultTable(id)[n]

\* the connections that terminate at node n on handle h, in enumeration order
IncomingOn(n, h) ==
    SelectSeq(connections, LAMBDA c : c.TargetNodeID = n /\ c.TargetHandle = h)

IncomingHandles(n) ==
    {connections[i].TargetHandle :
        i \in {j \in DOMAIN connections : connections[j].TargetNodeID = n}}

\* per handle, the outputs of the sources of the connections on that handle,
\* one entry per connection in enumeration order
ExpectedInput(n) ==
    [h \in IncomingHandles(n) |->
        [i \in 1..Len(IncomingOn(n, h)) |-> Result(IncomingOn(n, h)[i].SourceNodeID)]]

\* C13: the input recorded for an executed node with incoming connections
\* maps each target handle to the list of the outputs of the sources of the
\* connections on that handle, one entry per connection, in the order the
\* connections are enumerated.
C13_FanInAggregation ==
    \A k \in DOMAIN nodeExecutions :
        (/\ nodeExecutions[k].Status # "running"
         /\ IncomingHandles(nodeExecutions[k].NodeID) # {})
            => nodeExecutions[k].InputData
                   = MarshalJSON(ExpectedInput(nodeExecutions[k].NodeID))

\* a node was executed that has two connections from different sources on one
\* handle and a connection on another handle
C13_Witness ==
    \E k \in DOMAIN nodeExecutions : \E i, j, l \in DOMAIN connections :
        /\ nodeExecutions[k].Status = "completed"
        /\ connections[i].TargetNodeID = nodeExecutions[k].NodeID
        /\ connections[j].TargetNodeID = nodeExecutions[k].NodeID
        /\ connections[l].TargetNodeID = nodeExecutions[k].NodeID
        /\ i < j
        /\ connections[i].TargetHandle = connections[j].TargetHandle
        /\ connections[i].SourceNodeID > connections[j].SourceNodeID
        /\ connections[l].TargetHandle # connections[i].TargetHandle

\* the list entry EnqueueTask writes for the execute_workflow task of a Run
EnvelopeOf(id) ==
    MarshalTask([task_type |-> ExecuteWorkflowTask,
                 payload |-> MarshalJSON([execution_id |-> id])])

\* an execute_workflow envelope for the existing, pending Run id is in the queue
EnvelopeQueued(id) ==
    /\ id \in DOMAIN executions
    /\ executions[id].Status = "pending"
    /\ \E i \in DOMAIN queue : queue[i].bytes = EnvelopeOf(id)

\* the envelope of Run id was dequeued and the Run has ended
RunSettled(id) ==
    /\ id \in DOMAIN executions
    /\ executions[id].Status \in {"completed", "failed"}
    /\ CallsOf(id) # {}
    /\ \A i \in DOMAIN queue : queue[i].bytes # EnvelopeOf(id)

\* C14: under fairness, unless the process is told to shut down, every
\* execute_workflow envelope enqueued for a pending Run is eventually
\* dequeued by a worker and the Run eventually is completed or failed.
C14_EnqueuedRunSettles ==
    \A id \in 1..MaxRuns :
        EnvelopeQueued(id) ~> (RunSettled(id) \/ signals > 0)

\* without any shutdown signal, every Run that can be submitted was enqueued,
\* dequeued and has ended
C14_Witness ==
    /\ signals = 0
    /\ pushed = MaxRuns
    /\ \A id \in 1..MaxRuns : RunSettled(id)

\* the list entries DequeueTask has returned so far, to any worker
DeliveredSeqs ==
    UNION {Range(delivered[w]) : w \in DOMAIN delivered}

\* C15: envelopes leave the queue in the order they were enqueued: entries are
\* numbered in the order EnqueueTask pushed them; every entry DequeueTask has
\* returned was pushed before every entry still queued, and each call returns
\* an entry pushed after all those returned before.
C15_Fifo ==
    /\ [](\A d \in DeliveredSeqs : \A i \in DOMAIN queue : d < queue[i].seq)
    /\ [][\A w \in DOMAIN delivered :
            Len(delivered'[w]) > Len(delivered[w])
                => /\ delivered'[w][Len(delivered'[w])] = Head(queue).seq
                   /\ \A d \in DeliveredSeqs : d < Head(queue).seq]_vars

\* DequeueTask has returned the first envelope while the second one is still
\* queued, before any engine call has begun
C15_Witness ==
    /\ 1 \in DeliveredSeqs
    /\ \E i \in DOMAIN queue : queue[i].seq = 2
    /\ \A c \in DOMAIN calls : calls[c].pc = "load"

C17_EmptyDequeueReturns ==
    /\ trial.pc = "done" => (~ trial.found /\ trial.err = NoErr)
    /\ (trial.pc = "blpop" /\ trial.elapsed * Second >= trial.timeout)
          => ENABLED PollReturn

\* C18: in any graph, cyclic or not, every step-run of every Run belongs to a
\* node that is reachable from a source node along the connections.
C18_UnreachableNeverRuns ==
    \A k \in DOMAIN nodeExecutions :
        nodeExecutions[k].NodeID \in ReachableNodes

\* every Run has returned, with completed step-runs, on a graph that has an
\* unreachable node behind a cycle (not itself on a cycle)
C18_Witness ==
    /\ AllReturned
    /\ \E n \in NodeSet \ ReachableNodes : ~ OnCycle(n)
    /\ \A id \in DOMAIN executions : StepRunsWith(id, "completed") # {}

\* the engine calls of a Run that have not returned
ActiveCalls(id) == {c \in CallsOf(id) : calls[c].pc # "returned"}

\* C19: with each run id enqueued once, at every moment a Run has at most one
\* engine call that has not returned and at most one step-run that is
\* running, and a running step-run belongs to the node that call is
\* executing; this holds with several workers and after the execution timer
\* has fired for the Run.
C19_OneCallOneNode ==
    \A id \in DOMAIN executions :
        /\ Cardinality(ActiveCalls(id)) <= 1
        /\ Cardinality(StepRunsWith(id, "running")) <= 1
        /\ \A k \in StepRunsWith(id, "running") :
             \E c \in ActiveCalls(id) :
                /\ calls[c].stack # <<>>
                /\ Top(calls[c].stack).ne = k

\* the timer has fired for two Runs whose engine calls go on side by side, one
\* executing the first node and one the second node of the chain
C19_Witness ==
    \E c, d \in timedOut :
        /\ calls[c].executionID # calls[d].executionID
        /\ \E k \in StepRunsWith(calls[c].executionID, "running") :
             nodeExecutions[k].NodeID = 1
        /\ \E k \in StepRunsWith(calls[d].executionID, "running") :
             nodeExecutions[k].NodeID = 2

\* the text {{first}} {{last}}
TwoExpressions ==
    <<"{", "{", "first", "}", "}", " ", "{", "{", "last", "}", "}">>

\* C20: Transform with the mapping {"full": "{{first}} {{last}}"} applied to
\* the item {"first": "A", "last": "B"} yields {"full": "A B"}.
C20_TwoExpressions ==
    (/\ trial.pc = "done"
     /\ trial.mapping = Obj(<<"full">> :> Str(TwoExpressions))
     /\ trial.item = Obj((<<"first">> :> Str(<<"A">>)) @@ (<<"last">> :> Str(<<"B">>))))
        => trial.result = Obj(<<"full">> :> Str(<<"A", " ", "B">>))

\* item passes an equals filter: its field value prints as the value does
PrintsAs(item, field, value) ==
    Sprint(getNestedValue(item, field)) = Sprint(value)

\* the positions of the input items that pass the equals filter, in order
RECURSIVE PassingItems(_, _, _)
PassingItems(items, field, value) ==
    IF items = <<>> THEN <<>>
    ELSE (IF PrintsAs(items[1], field, value) THEN <<items[1]>> ELSE <<>>)
            \o PassingItems(Tail(items), field, value)

\* C21: Filter with operator equals on a list delivered on a single port
\* returns exactly the items whose field value prints as the same text as
\* the value, in input order; for field status, value active and the items
\* {"status":"active"}, {"status":"inactive"} it returns the first item alone.
C21_FilterEquals ==
    (trial.pc = "done" /\ trial.config.operator \in {"", "equals"})
        => LET items == trial.input["input"].v
               field == trial.config.field
               value == trial.config.value
           IN /\ trial.result.t = "array"
              /\ trial.result.v = PassingItems(items, field, value)
              /\ (/\ field = <<"status">>
                  /\ value = Str(<<"active">>)
                  /\ items = <<Obj(<<"status">> :> Str(<<"active">>)),
                               Obj(<<"status">> :> Str(<<"in", "active">>))>>)
                    => trial.result.v = <<Obj(<<"status">> :> Str(<<"active">>))>>

\* the equals filter on status = active has run on the two items of the
\* example and kept one
C21_Witness ==
    /\ trial.pc = "done"
    /\ trial.config = [field |-> <<"status">>, operator |-> "equals",
                       value |-> Str(<<"active">>)]
    /\ trial.input["input"].v = <<Obj(<<"status">> :> Str(<<"active">>)),
                                  Obj(<<"status">> :> Str(<<"in", "active">>))>>
    /\ Len(trial.result.v) = 1

\* C22: in the Run 1 -> 2 where node 1's output is a list of objects and
\* node 2 is a filter node fed on handle "input", node 2's output is the
\* sub-list of node 1's objects that satisfy the condition.
C22_FilterDownstream ==
    trial.pc = "done"
        => trial.result =
              FilterExecute(trial.config, [h \in {"input"} |-> trial.upstream])

\* node 2 has filtered on status = active downstream of a node whose list
\* holds an object with status active, and its output is empty
C22_LosesMatches ==
    /\ trial.pc = "done"
    /\ trial.config = [field |-> <<"status">>, operator |-> "equals",
                       value |-> Str(<<"active">>)]
    /\ trial.upstream = Arr(<<Obj(<<"status">> :> Str(<<"active">>))>>)
    /\ trial.result = Arr(<<>>)

\* C23: a node whose node_type is "plugin:<path>" reaches the plugin-loading
\* branch with <path> when its workflow runs, without any further
\* registration step (the node type table holds the default rows).
C23_PluginNodeTypeLoads ==
    (/\ trial.pc = "returned"
     /\ trial.registry = DefaultNodeTypes
     /\ HasPrefix(trial.NodeType, <<"plugin:">>))
        => /\ trial.plugin
           /\ trial.path = TrimPrefix(trial.NodeType, <<"plugin:">>)

\* the Run of a node with node_type plugin:good.so has returned with the
\* default node type table: no step-run, no plugin loaded, the Run failed
C23_PluginNeverLoaded ==
    /\ trial.pc = "returned"
    /\ trial.registry = DefaultNodeTypes
    /\ trial.NodeType = <<"plugin:", "good.so">>
    /\ ~ trial.plugin
    /\ nodeExecutions = <<>>
    /\ executions[1].Status = "failed"

\* the errors of a type key that cannot be resolved to an executor
ResolutionErrors ==
    {ErrRecordNotFound, ErrUnknownExecutor, ErrPluginOpen, ErrPluginLookup,
     ErrPluginFactory}

\* C24: when the node's type key cannot be resolved to an executor (no
\* registry entry, an executor class that is neither built-in nor
\* plugin-prefixed, or a plugin load failure), a step-run of the node records
\* the failure (status failed, error text) and the Run ends failed.
C24_ResolutionFailureRecorded ==
    (trial.pc = "returned" /\ trial.err \in ResolutionErrors)
        => /\ \E k \in DOMAIN nodeExecutions :
                /\ nodeExecutions[k].NodeID = 1
                /\ nodeExecutions[k].Status = "failed"
                /\ nodeExecutions[k].ErrorMessage # <<>>
           /\ executions[1].Status = "failed"

\* the Run of a node whose type key has no registry entry has returned:
\* the Run is failed and no step-run exists
C24_MissingTypeLeavesNoStepRun ==
    /\ trial.pc = "returned"
    /\ trial.NodeType = <<"unknown">>
    /\ trial.err = ErrRecordNotFound
    /\ executions[1].Status = "failed"
    /\ nodeExecutions = <<>>

\* C24 for the failures of LoadExecutor: an executor class that is neither
\* built-in nor plugin-prefixed, or a plugin that cannot be loaded, leaves a
\* failed step-run with error text and a failed Run.
C24_LoadFailureRecorded ==
    (trial.pc = "returned" /\ trial.err \in ResolutionErrors \ {ErrRecordNotFound})
        => /\ \E k \in DOMAIN nodeExecutions :
                /\ nodeExecutions[k].NodeID = 1
                /\ nodeExecutions[k].Status = "failed"
                /\ nodeExecutions[k].ErrorMessage # <<>>
           /\ executions[1].Status = "failed"

\* the node ids of a Run's step-runs in the order the step-runs were created
NodeOrder(id) == [i \in DOMAIN RowsOf(id) |-> RowsOf(id)[i].NodeID]

IsPrefix(a, b) == Len(a) <= Len(b) /\ SubSeq(b, 1, Len(a)) = a

\* the depth-first traversal of the graph when every node succeeds: a node
\* is visited, then for each of its outgoing connections in enumeration
\* order the target, if all the sources of its incoming connections have
\* been visited, together with everything below it; the source nodes are
\* taken in declaration order
RECURSIVE VisitNode(_, _)
RECURSIVE VisitTargets(_, _)
VisitNode(n, st) ==
    VisitTargets(SelectSeq(connections, LAMBDA conn : conn.SourceNodeID = n),
                 [order |-> Append(st.order, n), done |-> st.done \cup {n}])

VisitTargets(conns, st) ==
    IF conns = <<>> THEN st
    ELSE LET t == Head(conns).TargetNodeID
             ready == \A i \in DOMAIN connections :
                         connections[i].TargetNodeID = t
                             => connections[i].SourceNodeID \in st.done
         IN VisitTargets(Tail(conns), IF ready THEN VisitNode(t, st) ELSE st)

RECURSIVE VisitSources(_, _)
VisitSources(sources, st) ==
    IF sources = <<>> THEN st
    ELSE VisitSources(Tail(sources), VisitNode(Head(sources), st))

DepthFirstOrder ==
    VisitSources(SelectSeq(nodes, LAMBDA n : n \in SourceNodes),
                 [order |-> <<>>, done |-> {}]).order

\* C25: the step-runs of every Run are created in the order of the
\* depth-first traversal that takes the source nodes in declaration order
\* and, after a node, each ready successor with everything ready below it
\* before the next sibling or source node (a Run that fails stops on the
\* way); two Runs of the graph create their step-runs in the same node order
\* as far as both go.
C25_DepthFirstOrder ==
    /\ \A id \in DOMAIN executions : IsPrefix(NodeOrder(id), DepthFirstOrder)
    /\ \A id1, id2 \in DOMAIN executions :
          \/ IsPrefix(NodeOrder(id1), NodeOrder(id2))
          \/ IsPrefix(NodeOrder(id2), NodeOrder(id1))

\* two completed Runs of the graph with the source nodes 1 and 3 and the
\* connection 1 -> 2: node 2 ran below node 1 before source node 3 started
C25_Witness ==
    /\ nodes = <<1, 2, 3>>
    /\ Len(connections) = 1
    /\ connections[1].SourceNodeID = 1
    /\ connections[1].TargetNodeID = 2
    /\ \A id \in DOMAIN executions :
          /\ Returned(id)
          /\ executions[id].Status = "completed"
          /\ NodeOrder(id) = <<1, 2, 3>>

\* the input document of a Run is malformed
Malformed(id) == ~ executions[id].InputData.valid

\* C26: a Run whose input document is malformed never gets a step-run, and
\* its ExecuteWorkflow call ends it with status failed and the input-parse
\* error.
C26_MalformedInput ==
    \A id \in DOMAIN executions :
        Malformed(id)
            => /\ RowsOf(id) = <<>>
               /\ Returned(id)
                    => /\ executions[id].Status = "failed"
                       /\ executions[id].ErrorMessage = ErrInputParse

\* C26 (amended): a Run whose input document is malformed never gets a
\* step-run and its ExecuteWorkflow call ends it with status failed; the
\* error is the input-parse error when the workflow has a start node, and
\* the no-start-nodes error when it has none.
C26_MalformedInputFails ==
    \A id \in DOMAIN executions :
        Malformed(id)
            => /\ RowsOf(id) = <<>>
               /\ Returned(id)
                    => /\ executions[id].Status = "failed"
                       /\ executions[id].ErrorMessage =
                             IF SourceNodes = {} THEN ErrNoStartNodes
                             ELSE ErrInputParse

\* the Run of a workflow with a start node and a malformed input document
\* has returned with the input-parse error
C26_Witness ==
    \E id \in DOMAIN executions :
        /\ Malformed(id)
        /\ SourceNodes # {}
        /\ Returned(id)
        /\ executions[id].ErrorMessage = ErrInputParse

\* the status changes of a step-run
StepRunChanges == {<<"running", "completed">>, <<"running", "failed">>}

\* C27: every step-run has status running, completed or failed; a step-run
\* is created with status running, keeps its Run and node, changes status
\* only from running to completed or to failed, and is never deleted.
C27_StepRunStatus ==
    /\ [](\A k \in DOMAIN nodeExecutions :
            nodeExecutions[k].Status \in {"running", "completed", "failed"})
    /\ [][/\ Len(nodeExecutions') >= Len(nodeExecutions)
          /\ \A k \in DOMAIN nodeExecutions' :
                IF k \in DOMAIN nodeExecutions
                THEN /\ nodeExecutions'[k].WorkflowExecutionID =
                            nodeExecutions[k].WorkflowExecutionID
                     /\ nodeExecutions'[k].NodeID = nodeExecutions[k].NodeID
                     /\ \/ nodeExecutions'[k].Status = nodeExecutions[k].Status
                        \/ <<nodeExecutions[k].Status, nodeExecutions'[k].Status>>
                              \in StepRunChanges
                ELSE nodeExecutions'[k].Status = "running"]_vars

\* step-runs of all three statuses exist: one was created and is running,
\* one has changed to completed and one to failed
C27_Witness ==
    \A status \in {"running", "completed", "failed"} :
        \E k \in DOMAIN nodeExecutions : nodeExecutions[k].Status = status

\* the entries of the task list carry the numbers of the last pushes, in order
QueueIsTailOfPushes ==
    \A i \in DOMAIN queue : queue[i].seq = pushed - Len(queue) + i

\* a step of worker loop w that ends the loop
LoopEnds(w) == workers[w].pc # "stopped" /\ workers'[w].pc = "stopped"

C29_SourceGetsRunInput ==
    \A k \in DOMAIN nodeExecutions :
        LET row == nodeExecutions[k]
        IN (row.NodeID \in SourceNodes /\ row.Status # "running")
              => row.InputData =
                    MarshalJSON(executions[row.WorkflowExecutionID].InputData.value)

\* a Run with the input {"data": 8} has executed two source nodes
C29_Witness ==
    /\ Cardinality(SourceNodes) >= 2
    /\ executions[1].InputData.value = ("data" :> 8)
    /\ \A n \in SourceNodes :
          \E k \in StepRunsOf(1, n) : nodeExecutions[k].Status = "completed"

\* the depth-first traversal (as DepthFirstOrder) of a given graph g
RECURSIVE VisitNodeIn(_, _, _)
RECURSIVE VisitTargetsIn(_, _, _)
VisitNodeIn(g, n, st) ==
    VisitTargetsIn(g, SelectSeq(g.Connections, LAMBDA conn : conn.SourceNodeID = n),
                   [order |-> Append(st.order, n), done |-> st.done \cup {n}])

VisitTargetsIn(g, conns, st) ==
    IF conns = <<>> THEN st
    ELSE LET t == Head(conns).TargetNodeID
             ready == \A i \in DOMAIN g.Connections :
                         g.Connections[i].TargetNodeID = t
                             => g.Connections[i].SourceNodeID \in st.done
         IN VisitTargetsIn(g, Tail(conns),
                           IF ready THEN VisitNodeIn(g, t, st) ELSE st)

RECURSIVE VisitSourcesIn(_, _, _)
VisitSourcesIn(g, sources, st) ==
    IF sources = <<>> THEN st
    ELSE VisitSourcesIn(g, Tail(sources), VisitNodeIn(g, Head(sources), st))

DepthFirstOrderOf(g) ==
    VisitSourcesIn(g,
        SelectSeq(g.Nodes, LAMBDA n : ~ \E i \in DOMAIN g.Connections :
                                          g.Connections[i].TargetNodeID = n),
        [order |-> <<>>, done |-> {}]).order

\* the input of node n in graph g: the Run's input for a source node, else
\* per handle the outputs of the sources of the connections on it
ExpectedInputIn(g, n, input) ==
    LET incoming == SelectSeq(g.Connections, LAMBDA conn : conn.TargetNodeID = n)
        on(h) == SelectSeq(incoming, LAMBDA conn : conn.TargetHandle = h)
    IN IF incoming = <<>> THEN input
       ELSE [h \in {incoming[i].TargetHandle : i \in DOMAIN incoming} |->
                [i \in 1..Len(on(h)) |-> Result(on(h)[i].SourceNodeID)]]

\* C30: a Run executes the graph its ExecuteWorkflow call loaded when it
\* began, whatever the handlers change meanwhile: its step-runs follow the
\* traversal of the loaded graph (all of it when the Run ends without
\* error), and every executed node received the input the loaded graph
\* gives it.
C30_RunsLoadedGraph ==
    \A c \in DOMAIN calls :
        LET id == calls[c].executionID
            g == calls[c].workflow
        IN calls[c].pc # "load"
            => /\ IsPrefix(NodeOrder(id), DepthFirstOrderOf(g))
               /\ (calls[c].pc = "returned" /\ calls[c].err = NoErr)
                    => NodeOrder(id) = DepthFirstOrderOf(g)
               /\ \A k \in DOMAIN nodeExecutions :
                    (/\ nodeExecutions[k].WorkflowExecutionID = id
                     /\ nodeExecutions[k].Status # "running")
                        => nodeExecutions[k].InputData =
                              MarshalJSON(ExpectedInputIn(g, nodeExecutions[k].NodeID,
                                                          calls[c].context.Input))

\* the Run loaded the graph 1 -> 2; the connection was deleted while node 1
\* ran, and the Run ended completed without a step-run of node 2
C30_SkipsDisconnectedNode ==
    \E c \in DOMAIN calls :
        /\ calls[c].pc = "returned"
        /\ calls[c].err = NoErr
        /\ calls[c].workflow.Nodes = <<1, 2>>
        /\ Len(calls[c].workflow.Connections) = 1
        /\ calls[c].workflow.Connections[1].SourceNodeID = 1
        /\ calls[c].workflow.Connections[1].TargetNodeID = 2
        /\ connections = <<>>
        /\ NodeOrder(calls[c].executionID) = <<1>>

\* the engine call c takes the step
Stepping(c) == c \in DOMAIN calls /\ calls'[c] # calls[c]

IsExpression(value) ==
    /\ value.t = "string"
    /\ HasPrefix(value.v, <<"{", "{">>)
    /\ HasSuffix(value.v, <<"}", "}">>)

\* the mapping with every expression replaced by its lookup against the item,
\* wherever it stands
RECURSIVE Substituted(_, _)
Substituted(item, mapping) ==
    IF IsExpression(mapping)
    THEN getNestedValue(item, TrimSpace(SubSeq(mapping.v, 3, Len(mapping.v) - 2)))
    ELSE IF mapping.t = "object"
    THEN Obj([key \in DOMAIN mapping.v |-> Substituted(item, mapping.v[key])])
    ELSE IF mapping.t = "array"
    THEN Arr([i \in DOMAIN mapping.v |-> Substituted(item, mapping.v[i])])
    ELSE mapping

\* C32: a Transform call that succeeds yields, for every item, the mapping
\* in which every string of the form {{ path }} is replaced by the lookup of
\* the path in the item, as a map value, as a list element or as the whole
\* mapping, and every other scalar is left as it is.
C32_ExpressionsReplacedEverywhere ==
    (trial.pc = "done" /\ trial.err = NoErr)
        => LET items == inputItems(trial.input)
           IN trial.result =
                Arr([i \in DOMAIN items |->
                        Substituted(items[i], trial.config.mapping)])

\* an expression that is the value of a map key, at any depth, is replaced,
\* and a scalar that is no expression is left as it is
C32_MapValuesReplaced ==
    (/\ trial.pc = "done" /\ trial.err = NoErr
     /\ \/ trial.shape \in {"value", "nested", "mapInList"}
        \/ ~ IsExpression(LET RECURSIVE Leaf(_)
                              Leaf(m) == IF m.t = "object"
                                         THEN Leaf(m.v[CHOOSE k \in DOMAIN m.v : TRUE])
                                         ELSE IF m.t = "array" THEN Leaf(m.v[1])
                                         ELSE m
                          IN Leaf(trial.config.mapping)))
        => LET items == inputItems(trial.input)
           IN trial.result =
                Arr([i \in DOMAIN items |->
                        Substituted(items[i], trial.config.mapping)])

\* the mapping {"out": ["{{first}}"]} was applied to an item with first "A"
\* and the expression is still in the result
C32_ListElementKept ==
    /\ trial.pc = "done"
    /\ trial.shape = "list"
    /\ trial.config.mapping.v[<<"out">>].v[1].t = "string"
    /\ trial.config.mapping.v[<<"out">>].v[1].v = <<"{", "{", "first", "}", "}">>
    /\ Len(trial.result.v) >= 1
    /\ getNestedValue(inputItems(trial.input)[1], <<"first">>) = Str(<<"A">>)
    /\ trial.result.v[1] = trial.config.mapping

CompletedIn(id, n) ==
    \E k \in StepRunsOf(id, n) : nodeExecutions[k].Status = "completed"

\* C34: a Run whose engine call has returned with the status completed has a
\* completed step-run of every node of its workflow.
C34_CompletedMeansAllNodesRan ==
    \A id \in DOMAIN executions :
        (Returned(id) /\ executions[id].Status = "completed")
            => \A n \in NodeSet : CompletedIn(id, n)

\* on a graph without a cycle a Run that returned completed has a completed
\* step-run of every node
C34_AcyclicAllNodesRan ==
    \A id \in DOMAIN executions :
        (Returned(id) /\ executions[id].Status = "completed" /\ ~ HasCycle)
            => \A n \in NodeSet : CompletedIn(id, n)

\* a Run returned completed although a node of its workflow, lying on a
\* cycle behind a source node, has no step-run in it
C34_CompletedWithoutCycleNodes ==
    \E id \in DOMAIN executions :
        /\ Returned(id)
        /\ executions[id].Status = "completed"
        /\ \E n \in NodeSet : OnCycle(n) /\ StepRunsOf(id, n) = {}
        /\ \E n \in NodeSet : CompletedIn(id, n)

\* the engine calls in flight: started by a worker and not returned
InFlight == {c \in DOMAIN calls : calls[c].pc # "returned"}

\* C35: at every moment the number of engine calls in flight is at most the
\* number of workers the process was started with, also after execution
\* timers have fired.
C35_CallsBoundedByWorkers == Cardinality(InFlight) <= Len(workers)

\* as long as no execution timer has fired, the calls in flight are at most
\* as many as the workers
C35_BoundedUntilTimeout ==
    timedOut = {} => Cardinality(InFlight) <= Len(workers)

\* the only worker waits for the engine call of one Run while the call of
\* another Run, whose timer fired, is still executing its node
C35_TwoCallsOneWorker ==
    /\ Len(workers) = 1
    /\ workers[1].pc = "wait"
    /\ \E c \in timedOut :
          /\ c # workers[1].call
          /\ c \in InFlight
          /\ workers[1].call \in InFlight
          /\ calls[c].executionID # calls[workers[1].call].executionID

\* C36: an ExecuteWorkflow call that found its Run with a status other than
\* pending leaves, in each of its steps, the Run's status and the step-runs
\* of the Run as they are.
C36_RepeatedTriggerIgnored ==
    [][\A c \in DOMAIN calls :
         (/\ Stepping(c)
          /\ calls'[c].found \in {"running", "completed", "failed"})
            => LET id == calls[c].executionID
               IN /\ executions'[id].Status = executions[id].Status
                  /\ SelectSeq(nodeExecutions',
                         LAMBDA row : row.WorkflowExecutionID = id) = RowsOf(id)]_vars

\* a second call for a Run that had completed has returned, and the Run has
\* two step-runs of its only node
C36_CompletedRunExecutedAgain ==
    \E c \in DOMAIN calls :
        /\ calls[c].found = "completed"
        /\ calls[c].pc = "returned"
        /\ Len(RowsOf(calls[c].executionID)) = 2

\* C37: when the ExecuteWorkflow call of a Run has returned, with or without
\* an error, no step-run of that Run has the status running.
C37_NoRunningStepRunAfterReturn ==
    \A id \in DOMAIN executions :
        Returned(id) => StepRunsWith(id, "running") = {}

\* a call returned with an error after one node of the Run completed and the
\* next one failed
C37_Witness ==
    \E id \in DOMAIN executions :
        /\ Returned(id)
        /\ executions[id].Status = "failed"
        /\ StepRunsWith(id, "completed") # {}
        /\ StepRunsWith(id, "failed") # {}

\* C38: every step-run with the status completed or failed has its
\* completion time set.
C38_FinishedHasCompletionTime ==
    \A k \in DOMAIN nodeExecutions :
        nodeExecutions[k].Status \in {"completed", "failed"}
            => nodeExecutions[k].CompletedAt

\* a step-run that completed, or that failed in the executor's Execute, has
\* its completion time set
C38_ExecutedHasCompletionTime ==
    \A k \in DOMAIN nodeExecutions :
        (\/ nodeExecutions[k].Status = "completed"
         \/ /\ nodeExecutions[k].Status = "failed"
            /\ nodeExecutions[k].ErrorMessage[1] = "execution failed: ")
            => nodeExecutions[k].CompletedAt

\* the Run has returned failed and its failed step-run, whose executor could
\* not be loaded, has no completion time
C38_FailedWithoutCompletionTime ==
    \E k \in DOMAIN nodeExecutions :
        /\ nodeExecutions[k].Status = "failed"
        /\ nodeExecutions[k].ErrorMessage[1] = "failed to load executor: "
        /\ ~ nodeExecutions[k].CompletedAt
        /\ Returned(nodeExecutions[k].WorkflowExecutionID)

\* C39: with each run id enqueued once, a Run has at most one step-run with
\* the status failed.
C39_AtMostOneFailedStepRun ==
    \A id \in DOMAIN executions : Cardinality(StepRunsWith(id, "failed")) <= 1

\* a Run of a workflow with two source nodes returned failed: the first
\* source node failed and the second has no step-run
C39_Witness ==
    \E id \in DOMAIN executions :
        /\ Returned(id)
        /\ Cardinality(SourceNodes) >= 2
        /\ Cardinality(StepRunsWith(id, "failed")) = 1
        /\ \E n \in SourceNodes : StepRunsOf(id, n) = {}

====
